---------------------------- MODULE Spec2Model ----------------------------
(***************************************************************************)
(* x402 "upto" payment scheme: the verifier and the settler of the         *)
(* facilitator library (packages/upto/src/facilitator/permit2.ts) and the  *)
(* resource middleware that sequences verify -> handler -> meter -> settle.*)
(*                                                                         *)
(* Wire values are modelled as the program holds them: an address is a     *)
(* sequence of hex characters (abbreviated to a few characters), a numeric *)
(* field is a decimal string, i.e. a sequence of characters, which the     *)
(* code turns into a number with BigInt(...) or parseInt(...).             *)
(***************************************************************************)
EXTENDS Integers, Sequences, FiniteSets, TLC

\* ------------------------------------------------------------------------
\* Bounds of the model
\* ------------------------------------------------------------------------

\* Largest clock value (seconds) and largest deadline / validAfter drawn.
MaxTime == 2

\* Largest token amount (smallest units) drawn for permitted.amount, maxAmount,
\* allowance and balance; settlementAmount ranges over -1 .. MaxAmount + 1.
MaxAmount == 2

\* ------------------------------------------------------------------------
\* Strings
\* ------------------------------------------------------------------------

\* An optional value (a field that may be undefined, a result not yet there):
\* None when absent, Some(x) when present, Val(o) to read it.
None == <<>>

Some(x) == <<x>>

Val(o) == o[1]

\* Number.NaN, as an optional number with no value.
NaN == None

DigitChars == <<"0", "1", "2", "3", "4", "5", "6", "7", "8", "9">>

IsDigit(c) == \E i \in 1..10 : DigitChars[i] = c

DigitVal(c) == (CHOOSE i \in 1..10 : DigitChars[i] = c) - 1

\* Value of a sequence of decimal digits, most significant first.
RECURSIVE DecVal(_)
DecVal(s) ==
    IF s = <<>> THEN 0
    ELSE 10 * DecVal(SubSeq(s, 1, Len(s) - 1)) + DigitVal(s[Len(s)])

AllDigits(s) == \A i \in 1..Len(s) : IsDigit(s[i])

\* Number.prototype.toString / BigInt.prototype.toString for an integer.
RECURSIVE NatToString(_)
NatToString(n) ==
    IF n < 10 THEN <<DigitChars[n + 1]>>
    ELSE NatToString(n \div 10) \o <<DigitChars[(n % 10) + 1]>>

NumToString(n) == IF n < 0 THEN <<"-">> \o NatToString(0 - n) ELSE NatToString(n)

\* The strings BigInt(string) accepts without a SyntaxError, as far as the model
\* draws them: an optional minus sign followed by decimal digits.
IsIntegerLiteral(s) ==
    \/ s # <<>> /\ AllDigits(s)
    \/ Len(s) > 1 /\ Head(s) = "-" /\ AllDigits(Tail(s))

\* BigInt(string) of an integer literal. Numeric wire fields are decimal strings;
\* on any other string DigitVal has no value and the evaluation stops.
BigInt(s) ==
    IF Head(s) = "-" THEN 0 - DecVal(Tail(s)) ELSE DecVal(s)

\* Length of the longest prefix of s made of digits.
RECURSIVE DigitPrefixLen(_)
DigitPrefixLen(s) ==
    IF s = <<>> \/ ~IsDigit(Head(s)) THEN 0 ELSE 1 + DigitPrefixLen(Tail(s))

\* parseInt(string) without radix: optional sign, then the longest run of
\* decimal digits; NaN when there is none.
ParseInt(s) ==
    LET neg  == s # <<>> /\ Head(s) = "-"
        body == IF neg THEN Tail(s) ELSE s
        n    == DigitPrefixLen(body)
    IN  IF n = 0 THEN NaN
        ELSE IF neg THEN Some(0 - DecVal(SubSeq(body, 1, n)))
        ELSE Some(DecVal(SubSeq(body, 1, n)))

\* JavaScript's <= and > between a parseInt result and a number: any comparison
\* with NaN is false.
NumLeq(a, b) == a # NaN /\ Val(a) <= b

NumGt(a, b) == a # NaN /\ Val(a) > b

\* String.prototype.toLowerCase on a hex address.
LowerChar(c) ==
    CASE c = "A" -> "a"
      [] c = "B" -> "b"
      [] c = "C" -> "c"
      [] c = "D" -> "d"
      [] c = "E" -> "e"
      [] c = "F" -> "f"
      [] OTHER   -> c

\* A comparison of addresses as they were written, without folding the case.
ToLowerCase_Verbatim(s) == s

ToLowerCase(s) == [i \in 1..Len(s) |-> LowerChar(s[i])]

\* ------------------------------------------------------------------------
\* Constants of the package (addresses abbreviated to four hex characters)
\* ------------------------------------------------------------------------

PERMIT2_ADDRESS == <<"0", "D", "B", "3">>

X402_UPTO_PERMIT2_PROXY_ADDRESS == <<"4", "F", "f", "2">>

X402_EXACT_PERMIT2_PROXY_ADDRESS == <<"4", "c", "F", "1">>

\* CAIP-2 network ids. The namespace is kept as one token, the rest are characters.
BASE_SEPOLIA == <<"eip155", ":", "8", "4", "5", "3", "2">>

\* Default asset of the test requirements (USDC on Base Sepolia).
USDC_BASE_SEPOLIA == <<"0", "3", "6", "C", "7", "e">>

\* ------------------------------------------------------------------------
\* State
\* ------------------------------------------------------------------------

VARIABLES
    payload,        \* the UptoPermit2Payload handed to verifyUpto / settleUpto
    requirements,   \* the UptoPaymentRequirements handed along with it
    clock,          \* Math.floor(Date.now() / 1000)
    op,             \* the exported function that was called
    pc,             \* where that call stands
    now,            \* verifyUpto's local `now`
    calls,          \* the calls made on the FacilitatorSigner, in order
    answers,        \* what the signer answered to the calls that completed, in order
    verification,   \* the VerifyResult of the verifyUpto run, once it returned
    settlement,     \* the SettleResult of settleUpto, once it returned
    txHash,         \* settleUpto's local `txHash`
    \* --- resource middleware (one request) ---
    request,        \* the incoming HTTP request: method, path, payment headers
    mwPc,           \* where the middleware stands
    mwRequirements, \* the middleware's local `requirements`
    mwPayload,      \* the middleware's local `payload`
    mwVerification, \* the middleware's local `verification` (the /verify body)
    consumedAmount, \* the middleware's local `consumedAmount`
    mwSettlement,   \* the middleware's local `settlement` (the /settle body)
    fetches,        \* the requests sent to the facilitator, in order
    events,         \* the steps of the request, in order
    res,            \* c.res: the response of the downstream handler
    reply,          \* the Response the middleware itself returned, if it did
    \* --- facilitator server ---
    db,             \* the rows of the payments table, in insertion order
    inflight,       \* the POST /verify and POST /settle requests received, in order
    chain,          \* the payer's balance and allowance, the Permit2 nonces used
    serverClock,    \* Date.now() / 1000 of the facilitator
    \* --- payment client and GET /stats ---
    client,         \* the createUptoPermit2Payload call: its arguments and outcome
    stats           \* the body GET /stats answered with, once it did

libVars == <<payload, requirements, clock, op, pc, now, calls, answers, verification,
             settlement, txHash>>

mwVars == <<request, mwPc, mwRequirements, mwPayload, mwVerification, consumedAmount,
            mwSettlement, fetches, events, res, reply>>

facVars == <<db, inflight, chain, serverClock>>

otherVars == <<client, stats>>

vars == <<libVars, mwVars, facVars, otherVars>>

\* ------------------------------------------------------------------------
\* Facilitator library: verifyUpto
\* ------------------------------------------------------------------------

\* String.prototype.split(":") on a network id.
RECURSIVE Split(_, _)
Split(s, sep) ==
    IF \A i \in 1..Len(s) : s[i] # sep THEN <<s>>
    ELSE LET k == CHOOSE i \in 1..Len(s) : s[i] = sep /\ \A j \in 1..(i - 1) : s[j] # sep
         IN  <<SubSeq(s, 1, k - 1)>> \o Split(SubSeq(s, k + 1, Len(s)), sep)

\* parseChainId of facilitator/permit2.ts: no check of the namespace.
FacilitatorParseChainId(network) ==
    LET parts == Split(network, ":")
    IN  IF Len(parts) < 2 THEN NaN ELSE ParseInt(parts[2])

Invalid(reason) == [isValid |-> FALSE, invalidReason |-> Some(reason), payer |-> None]

Valid(payer) == [isValid |-> TRUE, invalidReason |-> None, payer |-> Some(payer)]

SpenderMismatch(p) ==
    ToLowerCase(p.permit2Authorization.spender)
        # ToLowerCase(X402_UPTO_PERMIT2_PROXY_ADDRESS)

RecipientMismatch(p, r) ==
    ToLowerCase(p.permit2Authorization.witness.to) # ToLowerCase(r.payTo)

\* A deadline check that still accepts deadline == now.
DeadlineExpired_Strict(p, t) ==
    ParseInt(p.permit2Authorization.deadline) # NaN
        /\ Val(ParseInt(p.permit2Authorization.deadline)) < t

DeadlineExpired(p, t) == NumLeq(ParseInt(p.permit2Authorization.deadline), t)

NotYetValid(p, t) == NumGt(ParseInt(p.permit2Authorization.witness.validAfter), t)

AuthorizedBelowMax(p, r) ==
    BigInt(p.permit2Authorization.permitted.amount) < BigInt(r.maxAmount)

\* The local checks with the time checks made before the address checks.
LocalCheckFailure_TimeFirst(p, r, t) ==
    IF DeadlineExpired(p, t) THEN Some("permit2_deadline_expired")
    ELSE IF NotYetValid(p, t) THEN Some("permit2_not_yet_valid")
    ELSE IF SpenderMismatch(p) THEN Some("invalid_spender")
    ELSE IF RecipientMismatch(p, r) THEN Some("invalid_recipient")
    ELSE IF AuthorizedBelowMax(p, r) THEN Some("insufficient_authorized_amount")
    ELSE None

\* The checks verifyUpto makes before it first awaits the signer: the reason of
\* the first one that fails, None when all pass.
LocalCheckFailure(p, r, t) ==
    IF SpenderMismatch(p) THEN Some("invalid_spender")
    ELSE IF RecipientMismatch(p, r) THEN Some("invalid_recipient")
    ELSE IF DeadlineExpired(p, t) THEN Some("permit2_deadline_expired")
    ELSE IF NotYetValid(p, t) THEN Some("permit2_not_yet_valid")
    ELSE IF AuthorizedBelowMax(p, r) THEN Some("insufficient_authorized_amount")
    ELSE None

\* The typed message verifyUpto hands to signer.verifyTypedData.
TypedMessage(p) ==
    LET a == p.permit2Authorization
    IN  [permitted |-> [token |-> a.permitted.token, amount |-> BigInt(a.permitted.amount)],
         spender   |-> a.spender,
         nonce     |-> BigInt(a.nonce),
         deadline  |-> BigInt(a.deadline),
         witness   |-> [to         |-> a.witness.to,
                        validAfter |-> BigInt(a.witness.validAfter),
                        extra      |-> a.witness.extra]]

VerifyTypedDataCall(p, r) ==
    [method       |-> "verifyTypedData",
     functionName |-> "PermitWitnessTransferFrom",
     address      |-> p.permit2Authorization.from,
     args         |-> <<FacilitatorParseChainId(r.network), TypedMessage(p), p.signature>>]

AllowanceCall(p) ==
    [method       |-> "readContract",
     functionName |-> "allowance",
     address      |-> p.permit2Authorization.permitted.token,
     args         |-> <<p.permit2Authorization.from, PERMIT2_ADDRESS>>]

BalanceOfCall(p) ==
    [method       |-> "readContract",
     functionName |-> "balanceOf",
     address      |-> p.permit2Authorization.permitted.token,
     args         |-> <<p.permit2Authorization.from>>]

\* An answer of the signer to one call: a returned value or a thrown one.
Returned(v) == [threw |-> FALSE, value |-> v]

Threw(e) == [threw |-> TRUE, value |-> e]

\* What a signer call may throw: an Error with a message, or another value.
Thrown == {[isError |-> TRUE, message |-> "execution reverted"],
           [isError |-> FALSE, message |-> ""]}

\* A verifier that goes on to the allowance whatever the signature check said.
SignatureFailure_Ignored(answer) == None

\* Outcome of the signature check for an answer of signer.verifyTypedData.
SignatureFailure(answer) ==
    IF answer.threw THEN Some("signature_verification_failed")
    ELSE IF ~answer.value THEN Some("invalid_permit2_signature")
    ELSE None

\* Outcome of the allowance check for an answer of signer.readContract.
AllowanceFailure(p, answer) ==
    IF answer.threw THEN Some("allowance_check_failed")
    ELSE IF answer.value < BigInt(p.permit2Authorization.permitted.amount)
         THEN Some("permit2_allowance_required")
    ELSE None

\* Outcome of the balance check for an answer of signer.readContract.
BalanceFailure(p, answer) ==
    IF answer.threw THEN Some("balance_check_failed")
    ELSE IF answer.value < BigInt(p.permit2Authorization.permitted.amount)
         THEN Some("insufficient_balance")
    ELSE None

\* verifyUpto from its entry to its first await: reads the clock once, runs the
\* local checks, then calls signer.verifyTypedData.
VerifyUptoBegin ==
    /\ now' = Some(clock)
    /\ LET failure == LocalCheckFailure(payload, requirements, clock)
       IN  IF failure # None
           THEN /\ verification' = Some(Invalid(Val(failure)))
                /\ pc' = "verified"
                /\ calls' = calls
           ELSE /\ verification' = verification
                /\ pc' = "await_verifyTypedData"
                /\ calls' = Append(calls, VerifyTypedDataCall(payload, requirements))

CallVerifyUpto ==
    /\ pc = "call"
    /\ op = "verifyUpto"
    /\ VerifyUptoBegin
    /\ UNCHANGED <<payload, requirements, clock, op, answers, settlement, txHash>>
    /\ UNCHANGED <<mwVars, facVars, otherVars>>

VerifyTypedDataReturns ==
    /\ pc = "await_verifyTypedData"
    /\ \E answer \in {Returned(TRUE), Returned(FALSE)} \cup {Threw(e) : e \in Thrown} :
          LET failure == SignatureFailure(answer)
          IN  /\ answers' = Append(answers, answer)
              /\ IF failure # None
                 THEN /\ verification' = Some(Invalid(Val(failure)))
                      /\ pc' = "verified"
                      /\ calls' = calls
                 ELSE /\ verification' = verification
                      /\ pc' = "await_allowance"
                      /\ calls' = Append(calls, AllowanceCall(payload))
    /\ UNCHANGED <<payload, requirements, clock, op, now, settlement, txHash>>
    /\ UNCHANGED <<mwVars, facVars, otherVars>>

\* What a readContract of allowance or balanceOf may answer.
ReadAnswers == {Returned(v) : v \in 0..MaxAmount} \cup {Threw(e) : e \in Thrown}

AllowanceReturns ==
    /\ pc = "await_allowance"
    /\ \E answer \in ReadAnswers :
          LET failure == AllowanceFailure(payload, answer)
          IN  /\ answers' = Append(answers, answer)
              /\ IF failure # None
                 THEN /\ verification' = Some(Invalid(Val(failure)))
                      /\ pc' = "verified"
                      /\ calls' = calls
                 ELSE /\ verification' = verification
                      /\ pc' = "await_balanceOf"
                      /\ calls' = Append(calls, BalanceOfCall(payload))
    /\ UNCHANGED <<payload, requirements, clock, op, now, settlement, txHash>>
    /\ UNCHANGED <<mwVars, facVars, otherVars>>

BalanceOfReturns ==
    /\ pc = "await_balanceOf"
    /\ \E answer \in ReadAnswers :
          LET failure == BalanceFailure(payload, answer)
          IN  /\ answers' = Append(answers, answer)
              /\ verification' =
                    IF failure # None THEN Some(Invalid(Val(failure)))
                    ELSE Some(Valid(payload.permit2Authorization.from))
    /\ pc' = "verified"
    /\ UNCHANGED <<payload, requirements, clock, op, now, calls, settlement, txHash>>
    /\ UNCHANGED <<mwVars, facVars, otherVars>>

\* ------------------------------------------------------------------------
\* Facilitator library: settleUpto
\* ------------------------------------------------------------------------

SettleResult(success, hash, settled, error) ==
    [success |-> success, txHash |-> hash, settledAmount |-> settled, error |-> error]

\* A settler that always takes the ceiling, metered or not.
SettlementAmountOf_Ceiling(p) == p.permit2Authorization.permitted.amount

\* const settlementAmount = payload.settlementAmount ?? permitted.amount
SettlementAmountOf(p) ==
    IF p.settlementAmount = None THEN p.permit2Authorization.permitted.amount
    ELSE Val(p.settlementAmount)

\* A clamp that also rejects an amount equal to the ceiling.
ExceedsAuthorization_AtCeiling(p) ==
    BigInt(SettlementAmountOf(p)) >= BigInt(p.permit2Authorization.permitted.amount)

ExceedsAuthorization(p) ==
    BigInt(SettlementAmountOf(p)) > BigInt(p.permit2Authorization.permitted.amount)

\* A zero test on the string instead of on its value.
IsZeroSettlement_AsString(p) == SettlementAmountOf(p) = <<"0">>

IsZeroSettlement(p) == BigInt(SettlementAmountOf(p)) = 0

\* A settler that goes on to the chain whatever the re-verification said.
ReverificationFailed_Ignored(v) == FALSE

\* if (!verification.isValid)
ReverificationFailed(v) == ~v.isValid

\* The call of the proxy's settle(permit, amount, owner, witness, signature).
SettleCall(p) ==
    LET a == p.permit2Authorization
    IN  [method       |-> "writeContract",
         functionName |-> "settle",
         address      |-> X402_UPTO_PERMIT2_PROXY_ADDRESS,
         args         |-> <<[permitted |-> [token  |-> a.permitted.token,
                                            amount |-> BigInt(a.permitted.amount)],
                             nonce     |-> BigInt(a.nonce),
                             deadline  |-> BigInt(a.deadline)],
                            BigInt(SettlementAmountOf(p)),
                            a.from,
                            [to         |-> a.witness.to,
                             validAfter |-> BigInt(a.witness.validAfter),
                             extra      |-> a.witness.extra],
                            p.signature>>]

ReceiptCall(hash) ==
    [method       |-> "waitForTransactionReceipt",
     functionName |-> "",
     address      |-> <<>>,
     args         |-> <<hash>>]

\* A catch that answers with the generic tag whatever was thrown.
CaughtError_Generic(err) == "settlement_failed"

\* catch (err): err instanceof Error ? err.message : "settlement_failed"
CaughtError(err) == IF err.isError THEN err.message ELSE "settlement_failed"

\* Transaction hashes writeContract may return, and those a receipt may carry.
TxHashes == {"0xtxhash"}

ReceiptHashes == {"0xtxhash", "0xreplaced"}

CallSettleUpto ==
    /\ pc = "call"
    /\ op = "settleUpto"
    /\ IF ExceedsAuthorization(payload)
       THEN /\ settlement' = Some(SettleResult(FALSE, None, None,
                                               Some("settlement_exceeds_authorization")))
            /\ pc' = "done"
            /\ UNCHANGED <<now, calls, verification>>
       ELSE IF IsZeroSettlement(payload)
       THEN /\ settlement' = Some(SettleResult(TRUE, None, Some(<<"0">>), None))
            /\ pc' = "done"
            /\ UNCHANGED <<now, calls, verification>>
       ELSE /\ VerifyUptoBegin
            /\ settlement' = settlement
    /\ UNCHANGED <<payload, requirements, clock, op, answers, txHash>>
    /\ UNCHANGED <<mwVars, facVars, otherVars>>

\* A verifier that submits the settlement itself once its checks passed.
VerifyUptoReturns_Settles ==
    /\ pc = "verified"
    /\ IF ~Val(verification).isValid
       THEN /\ pc' = "done"
            /\ calls' = calls
       ELSE /\ calls' = Append(calls, SettleCall(payload))
            /\ pc' = "await_writeContract"
    /\ UNCHANGED <<payload, requirements, clock, op, now, answers, verification,
                   settlement, txHash>>
    /\ UNCHANGED <<mwVars, facVars, otherVars>>

\* verifyUpto's promise resolves: its caller has the result; inside settleUpto
\* the re-verification gates the chain write.
VerifyUptoReturns ==
    /\ pc = "verified"
    /\ IF op = "verifyUpto"
       THEN /\ pc' = "done"
            /\ UNCHANGED <<calls, settlement>>
       ELSE IF ReverificationFailed(Val(verification))
       THEN /\ settlement' = Some(SettleResult(FALSE, None, None,
                                               Val(verification).invalidReason))
            /\ pc' = "done"
            /\ calls' = calls
       ELSE /\ calls' = Append(calls, SettleCall(payload))
            /\ pc' = "await_writeContract"
            /\ settlement' = settlement
    /\ UNCHANGED <<payload, requirements, clock, op, now, answers, verification, txHash>>
    /\ UNCHANGED <<mwVars, facVars, otherVars>>

WriteContractReturns ==
    /\ pc = "await_writeContract"
    /\ \/ \E hash \in TxHashes :
            /\ answers' = Append(answers, Returned(hash))
            /\ txHash' = Some(hash)
            /\ calls' = Append(calls, ReceiptCall(hash))
            /\ pc' = "await_receipt"
            /\ settlement' = settlement
       \/ \E err \in Thrown :
            /\ answers' = Append(answers, Threw(err))
            /\ settlement' = Some(SettleResult(FALSE, None, None, Some(CaughtError(err))))
            /\ pc' = "done"
            /\ UNCHANGED <<calls, txHash>>
    /\ UNCHANGED <<payload, requirements, clock, op, now, verification>>
    /\ UNCHANGED <<mwVars, facVars, otherVars>>

ReceiptReturns ==
    /\ pc = "await_receipt"
    /\ \/ \E status \in {"success", "reverted"}, hash \in ReceiptHashes :
            /\ answers' = Append(answers,
                                 Returned([status |-> status, transactionHash |-> hash]))
            /\ settlement' =
                  IF status = "reverted"
                  THEN Some(SettleResult(FALSE, txHash, None, Some("transaction_reverted")))
                  ELSE Some(SettleResult(TRUE, Some(hash),
                                         Some(SettlementAmountOf(payload)), None))
       \/ \E err \in Thrown :
            /\ answers' = Append(answers, Threw(err))
            /\ settlement' = Some(SettleResult(FALSE, None, None, Some(CaughtError(err))))
    /\ pc' = "done"
    /\ UNCHANGED <<payload, requirements, clock, op, now, calls, verification, txHash>>
    /\ UNCHANGED <<mwVars, facVars, otherVars>>

\* Time passes before the call is made; the clock is read once, at line 49, so
\* time that passes later in the call is never observed.
Tick ==
    /\ pc = "call"
    /\ clock < MaxTime
    /\ clock' = clock + 1
    /\ UNCHANGED <<payload, requirements, op, pc, now, calls, answers, verification,
                   settlement, txHash>>
    /\ UNCHANGED <<mwVars, facVars, otherVars>>

\* ------------------------------------------------------------------------
\* Inputs of the library specification
\* ------------------------------------------------------------------------

PAYER == <<"f", "3", "9", "F">>

PAY_TO == <<"7", "0", "C", "8">>

OTHER_ADDRESS == <<"0", "0", "0", "1">>

TimeStrings == {NumToString(t) : t \in 0..MaxTime}

AmountStrings == {NumToString(n) : n \in 0..MaxAmount}

\* What a caller may have written into payload.settlementAmount: nothing, or any
\* integer literal, the values just outside 0 .. MaxAmount and a zero that is not
\* written "0" included.
SettlementAmountInputs ==
    {None, Some(<<"0", "0">>)}
        \cup {Some(NumToString(n)) : n \in (0 - 1)..(MaxAmount + 1)}

\* The proxy address as the package writes it and in lower case, and another address.
SpenderInputs ==
    {X402_UPTO_PERMIT2_PROXY_ADDRESS, <<"4", "f", "f", "2">>,
     X402_EXACT_PERMIT2_PROXY_ADDRESS}

\* The route's payTo as the server writes it and in lower case, and another address.
RecipientInputs == {PAY_TO, <<"7", "0", "c", "8">>, OTHER_ADDRESS}

PayloadInputs ==
    {[signature |-> "0xvalidsignature",
      permit2Authorization |->
          [from      |-> PAYER,
           permitted |-> [token |-> USDC_BASE_SEPOLIA, amount |-> amount],
           spender   |-> spender,
           nonce     |-> <<"1", "2", "3", "4", "5">>,
           deadline  |-> deadline,
           witness   |-> [to |-> to, validAfter |-> validAfter, extra |-> "0x"]],
      settlementAmount |-> settle] :
        amount \in AmountStrings, spender \in SpenderInputs, deadline \in TimeStrings,
        to \in RecipientInputs, validAfter \in TimeStrings,
        settle \in SettlementAmountInputs}

RequirementInputs ==
    {[scheme |-> "upto", network |-> BASE_SEPOLIA, asset |-> USDC_BASE_SEPOLIA,
      maxAmount |-> maxAmount, payTo |-> PAY_TO, maxTimeoutSeconds |-> 300] :
        maxAmount \in AmountStrings}

\* No request is in the middleware.
MwIdle ==
    /\ request = None
    /\ mwPc = "idle"
    /\ mwRequirements = None
    /\ mwPayload = None
    /\ mwVerification = None
    /\ consumedAmount = None
    /\ mwSettlement = None
    /\ fetches = <<>>
    /\ events = <<>>
    /\ res = None
    /\ reply = None

\* No request has reached the facilitator server.
FacIdle ==
    /\ db = <<>>
    /\ inflight = <<>>
    /\ chain = [balance |-> 0, allowance |-> 0, used |-> {}]
    /\ serverClock = 0

\* No payload is being built and GET /stats was not asked.
OtherIdle ==
    /\ client = None
    /\ stats = None

\* No call of the library is under way.
LibIdle ==
    /\ payload = None
    /\ requirements = None
    /\ clock = 0
    /\ op = "none"
    /\ pc = "done"
    /\ now = None
    /\ calls = <<>>
    /\ answers = <<>>
    /\ verification = None
    /\ settlement = None
    /\ txHash = None

Init ==
    /\ MwIdle
    /\ FacIdle
    /\ OtherIdle
    /\ payload \in PayloadInputs
    /\ requirements \in RequirementInputs
    /\ op \in {"verifyUpto", "settleUpto"}
    /\ op = "verifyUpto" => payload.settlementAmount = None
    /\ clock = 0
    /\ pc = "call"
    /\ now = None
    /\ calls = <<>>
    /\ answers = <<>>
    /\ verification = None
    /\ settlement = None
    /\ txHash = None

Next ==
    \/ CallVerifyUpto
    \/ VerifyTypedDataReturns
    \/ AllowanceReturns
    \/ BalanceOfReturns
    \/ CallSettleUpto
    \/ VerifyUptoReturns
    \/ WriteContractReturns
    \/ ReceiptReturns
    \/ Tick

Spec == Init /\ [][Next]_vars

\* ------------------------------------------------------------------------
\* Properties of settleUpto and verifyUpto (specification Spec)
\* ------------------------------------------------------------------------

Auth == payload.permit2Authorization

SettleReturned == op = "settleUpto" /\ pc = "done"

VerifyReturned == verification # None

HasCall(method) == \E i \in 1..Len(calls) : calls[i].method = method

\* C1: every settleUpto call that returns success = true returns a settledAmount
\* with 0 <= settledAmount <= permitted.amount, whatever integer the caller wrote
\* into settlementAmount and whatever the signer answers.
C1_SettledWithinAuthorization ==
    (SettleReturned /\ Val(settlement).success) =>
        /\ 0 <= BigInt(Val(Val(settlement).settledAmount))
        /\ BigInt(Val(Val(settlement).settledAmount)) <= BigInt(Auth.permitted.amount)

\* C2: a settlement amount above permitted.amount is answered
\* settlement_exceeds_authorization without any signer call; an amount equal to
\* permitted.amount is not rejected with that error.
C2_ExceedingAmountRejectedOffChain ==
    (op = "settleUpto" /\ pc # "call") =>
        LET amount  == BigInt(SettlementAmountOf(payload))
            ceiling == BigInt(Auth.permitted.amount)
        IN  /\ amount > ceiling =>
                /\ pc = "done"
                /\ settlement = Some(SettleResult(FALSE, None, None,
                                                  Some("settlement_exceeds_authorization")))
                /\ calls = <<>>
            /\ (amount <= ceiling /\ settlement # None) =>
                Val(settlement).error # Some("settlement_exceeds_authorization")

C2_Witness ==
    /\ SettleReturned
    /\ payload.settlementAmount # None
    /\ BigInt(Val(payload.settlementAmount)) = BigInt(Auth.permitted.amount) + 1
    /\ Val(settlement).error = Some("settlement_exceeds_authorization")

\* C3: a payload whose settlementAmount is 0 is answered
\* { success: true, settledAmount: "0" } with no txHash and no signer call.
C3_ZeroSettlementElided ==
    (/\ op = "settleUpto"
     /\ pc # "call"
     /\ payload.settlementAmount # None
     /\ BigInt(Val(payload.settlementAmount)) = 0) =>
        /\ pc = "done"
        /\ settlement = Some(SettleResult(TRUE, None, Some(<<"0">>), None))
        /\ calls = <<>>

C3_Witness ==
    /\ SettleReturned
    /\ payload.settlementAmount = Some(<<"0", "0">>)
    /\ BigInt(Auth.permitted.amount) > 0
    /\ Val(settlement).success
    /\ calls = <<>>

\* C4: for a non-zero amount within the ceiling, writeContract is called only
\* after the verifyUpto run of this settle call returned isValid = true; when that
\* run fails the result is its invalidReason and writeContract is never called.
C4_WriteOnlyAfterReverification ==
    (/\ op = "settleUpto"
     /\ BigInt(SettlementAmountOf(payload)) # 0
     /\ BigInt(SettlementAmountOf(payload)) <= BigInt(Auth.permitted.amount)) =>
        /\ pc # "call" => now # None
        /\ HasCall("writeContract") =>
              /\ VerifyReturned
              /\ Val(verification).isValid
              /\ pc \in {"await_writeContract", "await_receipt", "done"}
        /\ (pc = "done" /\ ~Val(verification).isValid) =>
              /\ settlement = Some(SettleResult(FALSE, None, None,
                                                Val(verification).invalidReason))
              /\ ~HasCall("writeContract")

C4_Witness ==
    /\ SettleReturned
    /\ VerifyReturned
    /\ Val(now) > 0
    /\ ~Val(verification).isValid
    /\ Val(settlement).error = Some("insufficient_balance")

\* The answer the signer gave to the call of `functionName`, None when that call
\* was not made or has not completed.
AnswerTo(functionName) ==
    IF \E i \in 1..Len(answers) : calls[i].functionName = functionName
    THEN Some(answers[CHOOSE i \in 1..Len(answers) : calls[i].functionName = functionName])
    ELSE None

UpperChar(c) ==
    CASE c = "a" -> "A"
      [] c = "b" -> "B"
      [] c = "c" -> "C"
      [] c = "d" -> "D"
      [] c = "e" -> "E"
      [] c = "f" -> "F"
      [] OTHER   -> c

\* Two hex addresses that differ at most in the case of their letters.
SameAddress(a, b) ==
    /\ Len(a) = Len(b)
    /\ \A i \in 1..Len(a) : UpperChar(a[i]) = UpperChar(b[i])

\* The eight checks of the verifier, as the specification numbers them.
Check1 == SameAddress(Auth.spender, X402_UPTO_PERMIT2_PROXY_ADDRESS)

Check2 == SameAddress(Auth.witness.to, requirements.payTo)

Check3 == BigInt(Auth.deadline) > Val(now)

Check4 == BigInt(Auth.witness.validAfter) <= Val(now)

Check5 == BigInt(Auth.permitted.amount) >= BigInt(requirements.maxAmount)

Answered(functionName) ==
    AnswerTo(functionName) # None /\ ~Val(AnswerTo(functionName)).threw

Check6 ==
    /\ Answered("PermitWitnessTransferFrom")
    /\ Val(AnswerTo("PermitWitnessTransferFrom")).value = TRUE

Check7 ==
    /\ Answered("allowance")
    /\ Val(AnswerTo("allowance")).value >= BigInt(Auth.permitted.amount)

Check8 ==
    /\ Answered("balanceOf")
    /\ Val(AnswerTo("balanceOf")).value >= BigInt(Auth.permitted.amount)

\* The checks in order, each with whether it failed and the reason it gives. A
\* signer check that was not reached has not failed.
SignerCheckReason(functionName, passes, refused, failed) ==
    IF AnswerTo(functionName) = None THEN None
    ELSE IF Val(AnswerTo(functionName)).threw THEN Some(failed)
    ELSE IF ~passes THEN Some(refused)
    ELSE None

OrderedReasons ==
    << IF Check1 THEN None ELSE Some("invalid_spender"),
       IF Check2 THEN None ELSE Some("invalid_recipient"),
       IF Check3 THEN None ELSE Some("permit2_deadline_expired"),
       IF Check4 THEN None ELSE Some("permit2_not_yet_valid"),
       IF Check5 THEN None ELSE Some("insufficient_authorized_amount"),
       SignerCheckReason("PermitWitnessTransferFrom", Check6,
                         "invalid_permit2_signature", "signature_verification_failed"),
       SignerCheckReason("allowance", Check7,
                         "permit2_allowance_required", "allowance_check_failed"),
       SignerCheckReason("balanceOf", Check8,
                         "insufficient_balance", "balance_check_failed") >>

FailingChecks == {k \in 1..Len(OrderedReasons) : OrderedReasons[k] # None}

LowestFailingCheck == CHOOSE k \in FailingChecks : \A j \in FailingChecks : k <= j

\* C5: verifyUpto returns isValid = true exactly when all eight checks hold (it
\* accepts only when all eight hold, and it rejects only when one of them, as far
\* as it got, failed), and then payer is permit2Authorization.from; checks 1 and 2
\* ignore letter case.
C5_ValidIffAllChecksHold ==
    VerifyReturned =>
        /\ Val(verification).isValid <=>
              (Check1 /\ Check2 /\ Check3 /\ Check4 /\ Check5 /\ Check6 /\ Check7 /\ Check8)
        /\ ~Val(verification).isValid => FailingChecks # {}
        /\ Val(verification).isValid => Val(verification) = Valid(Auth.from)

C5_Witness ==
    /\ op = "verifyUpto"
    /\ pc = "done"
    /\ Val(verification).isValid
    /\ Auth.spender # X402_UPTO_PERMIT2_PROXY_ADDRESS
    /\ Auth.witness.to # requirements.payTo

\* C6: when checks fail, verifyUpto returns the reason of the lowest-numbered
\* failing check; a signer error in checks 6 to 8 gives the *_failed reason as a
\* returned value.
C6_FirstFailingCheckWins ==
    /\ (VerifyReturned /\ ~Val(verification).isValid) =>
          /\ FailingChecks # {}
          /\ Val(verification) = Invalid(Val(OrderedReasons[LowestFailingCheck]))
    /\ (pc \in {"verified", "done"} /\ now # None) => VerifyReturned
    /\ (answers # <<>> /\ answers[Len(answers)].threw /\ Len(answers) <= 3) =>
          /\ VerifyReturned
          /\ Val(verification).invalidReason \in
                {Some("signature_verification_failed"), Some("allowance_check_failed"),
                 Some("balance_check_failed")}

C6_Witness ==
    /\ VerifyReturned
    /\ Cardinality(FailingChecks) >= 3
    /\ ~Check1
    /\ ~Check3
    /\ Val(verification).invalidReason = Some("invalid_spender")

C6_WitnessSignerError ==
    /\ VerifyReturned
    /\ AnswerTo("allowance") # None
    /\ Val(AnswerTo("allowance")).threw
    /\ Val(verification).invalidReason = Some("allowance_check_failed")

\* C7: deadline == now is rejected with permit2_deadline_expired; validAfter == now
\* passes check 4; permitted.amount == maxAmount passes check 5.
C7_VerifierBoundaries ==
    VerifyReturned =>
        /\ BigInt(Auth.deadline) = Val(now) =>
              /\ ~Val(verification).isValid
              /\ (Check1 /\ Check2) =>
                    Val(verification).invalidReason = Some("permit2_deadline_expired")
        /\ BigInt(Auth.witness.validAfter) = Val(now) =>
              Val(verification).invalidReason # Some("permit2_not_yet_valid")
        /\ BigInt(Auth.permitted.amount) = BigInt(requirements.maxAmount) =>
              Val(verification).invalidReason # Some("insufficient_authorized_amount")

C7_Witness ==
    /\ VerifyReturned
    /\ Val(now) > 0
    /\ BigInt(Auth.deadline) = Val(now)
    /\ BigInt(Auth.witness.validAfter) = Val(now)
    /\ BigInt(Auth.permitted.amount) = BigInt(requirements.maxAmount)
    /\ Val(verification).invalidReason = Some("permit2_deadline_expired")

C7_WitnessPass ==
    /\ VerifyReturned
    /\ Val(now) > 0
    /\ BigInt(Auth.witness.validAfter) = Val(now)
    /\ BigInt(Auth.permitted.amount) = BigInt(requirements.maxAmount)
    /\ Val(verification).isValid

\* ------------------------------------------------------------------------
\* Server scheme: price parsing
\* ------------------------------------------------------------------------

USDC_DECIMALS == 6

RECURSIVE Pow10(_)
Pow10(n) == IF n = 0 THEN 1 ELSE 10 * Pow10(n - 1)

\* price.replace(/[$,]/g, "")
StripDollarAndCommas(price) == SelectSeq(price, LAMBDA c : c \notin {"$", ","})

\* parseFloat(string): optional sign, digits, optional "." and digits; NaN when it
\* starts with no number. The value is kept exact: sign, integer digits, fraction
\* digits.
ParseFloat(s) ==
    LET neg      == s # <<>> /\ Head(s) = "-"
        body     == IF neg THEN Tail(s) ELSE s
        nInt     == DigitPrefixLen(body)
        rest     == SubSeq(body, nInt + 1, Len(body))
        hasPoint == rest # <<>> /\ Head(rest) = "."
        nFrac    == IF hasPoint THEN DigitPrefixLen(Tail(rest)) ELSE 0
    IN  IF nInt = 0 /\ nFrac = 0 THEN NaN
        ELSE Some([neg  |-> neg,
                   int  |-> SubSeq(body, 1, nInt),
                   frac |-> IF hasPoint THEN SubSeq(Tail(rest), 1, nFrac) ELSE <<>>])

\* Math.round(amount * 10 ** decimals) of a parsed, non-negative amount.
RoundToUnits(f, decimals) ==
    LET kept   == [i \in 1..decimals |-> IF i <= Len(f.frac) THEN f.frac[i] ELSE "0"]
        roundUp == Len(f.frac) > decimals /\ DigitVal(f.frac[decimals + 1]) >= 5
    IN  DecVal(f.int) * Pow10(decimals) + DecVal(kept) + (IF roundUp THEN 1 ELSE 0)

\* amount < 0 for a parsed amount: -0 is not below 0.
IsNegative(f) == f.neg /\ \E i \in 1..Len(f.int \o f.frac) : (f.int \o f.frac)[i] # "0"

\* parseUsdcAmount: the token units as a decimal string, None when it throws
\* "Invalid price".
ParseUsdcAmount(price) ==
    LET amount == ParseFloat(StripDollarAndCommas(price))
    IN  IF amount = NaN THEN None
        ELSE IF IsNegative(Val(amount)) THEN None
        ELSE Some(NumToString(RoundToUnits(Val(amount), USDC_DECIMALS)))

\* ------------------------------------------------------------------------
\* Resource middleware: uptoPaymentMiddleware
\* ------------------------------------------------------------------------

BASE_MAINNET == <<"eip155", ":", "8", "4", "5", "3">>

USDC_BASE_MAINNET == <<"8", "3", "3", "5", "9", "1", "3">>

\* A network the package registers no token for.
ETHEREUM_MAINNET == <<"eip155", ":", "1">>

\* The route table handed to uptoPaymentMiddleware, keyed by method and path.
Routes ==
    (<<"POST", "/api/generate">> :>
        [maxPrice          |-> <<"$", "1", ".", "0", "0">>,
         network           |-> BASE_SEPOLIA,
         payTo             |-> PAY_TO,
         asset             |-> None,
         maxTimeoutSeconds |-> None,
         description       |-> Some("Metered LLM generation"),
         mimeType          |-> None])
    @@
    (<<"GET", "/premium">> :>
        [maxPrice          |-> <<"0", ".", "0", "5">>,
         network           |-> BASE_MAINNET,
         payTo             |-> PAY_TO,
         asset             |-> Some(USDC_BASE_MAINNET),
         maxTimeoutSeconds |-> Some(60),
         description       |-> None,
         mimeType          |-> Some("application/json")])
    @@
    (<<"GET", "/mainnet">> :>
        [maxPrice          |-> <<"0", ".", "0", "5">>,
         network           |-> BASE_MAINNET,
         payTo             |-> PAY_TO,
         asset             |-> None,
         maxTimeoutSeconds |-> None,
         description       |-> None,
         mimeType          |-> None])
    @@
    (<<"GET", "/ethereum">> :>
        [maxPrice          |-> <<"0", ".", "0", "5">>,
         network           |-> ETHEREUM_MAINNET,
         payTo             |-> PAY_TO,
         asset             |-> None,
         maxTimeoutSeconds |-> None,
         description       |-> None,
         mimeType          |-> None])

\* routes[`${method} ${path}`]
RouteConfig(req) ==
    IF <<req.method, req.path>> \in DOMAIN Routes
    THEN Some(Routes[<<req.method, req.path>>])
    ELSE None

\* The middleware's requirements for a route, None when parseUsdcAmount throws.
MwBuildRequirements(route) ==
    LET units == ParseUsdcAmount(route.maxPrice)
    IN  IF units = None THEN None
        ELSE Some([scheme            |-> "upto",
                   network           |-> route.network,
                   asset             |-> IF route.asset = None THEN USDC_BASE_SEPOLIA
                                         ELSE Val(route.asset),
                   maxAmount         |-> Val(units),
                   payTo             |-> route.payTo,
                   maxTimeoutSeconds |-> IF route.maxTimeoutSeconds = None THEN 300
                                         ELSE Val(route.maxTimeoutSeconds)])

\* The requirements of every gated route: they depend on the route alone.
RouteRequirements == [key \in DOMAIN Routes |-> MwBuildRequirements(Routes[key])]

\* A header value is a string: its text, what atob makes of it (None when atob
\* throws) and what JSON.parse makes of that (None when it throws).
HeaderString(text, decoded) == [text |-> text, atob |-> decoded]

\* btoa(JSON.stringify(value))
BtoaJson(value) ==
    HeaderString("base64", Some([text |-> "json", json |-> Some(value)]))

\* c.req.header("X-Payment") ?? c.req.header("Payment-Signature")
PaymentHeader(req) == IF req.xPayment # None THEN req.xPayment ELSE req.paymentSignature

\* !paymentHeader
HeaderMissing(header) == header = None \/ Val(header).text = ""

\* A decoder that makes a payload of a header atob cannot read.
DecodePayload_Lenient(header) ==
    IF header.atob = None
    THEN Some([signature |-> header.text,
               permit2Authorization |->
                   [from      |-> PAYER,
                    permitted |-> [token |-> USDC_BASE_SEPOLIA, amount |-> <<"0">>],
                    spender   |-> X402_UPTO_PERMIT2_PROXY_ADDRESS,
                    nonce     |-> <<"0">>,
                    deadline  |-> <<"0">>,
                    witness   |-> [to |-> PAY_TO, validAfter |-> <<"0">>, extra |-> "0x"]],
               settlementAmount |-> None])
    ELSE Val(header.atob).json

\* JSON.parse(atob(paymentHeader)), None when either throws.
DecodePayload(header) ==
    IF header.atob = None THEN None ELSE Val(header.atob).json

\* c.json(body, status)
JsonResponse(body, status) == [status |-> status, body |-> body]

\* ...(value && { key: value })
WhenTruthy(text) == IF text # None /\ Val(text) # "" THEN text ELSE None

\* A 402 body that leaves the requirements out.
PaymentRequiredBody_NoAccepts(route, reqs) ==
    [error       |-> "Payment Required",
     accepts     |-> <<>>,
     description |-> WhenTruthy(route.description),
     mimeType    |-> WhenTruthy(route.mimeType)]

PaymentRequiredBody(route, reqs) ==
    [error       |-> "Payment Required",
     accepts     |-> <<reqs>>,
     description |-> WhenTruthy(route.description),
     mimeType    |-> WhenTruthy(route.mimeType)]

\* A middleware that lets every verification result through.
VerificationRejected_Never(v) == FALSE

\* if (!verification.isValid)
VerificationRejected(v) == ~v.isValid

\* A status mapping without the 412 case.
VerificationFailureStatus_Always402(v) == 402

\* invalidReason === "permit2_allowance_required" ? 412 : 402
VerificationFailureStatus(v) ==
    IF v.invalidReason = Some("permit2_allowance_required") THEN 412 ELSE 402

VerificationFailedBody(v, reqs) ==
    [error   |-> "Payment verification failed",
     reason  |-> v.invalidReason,
     accepts |-> <<reqs>>]

FacilitatorRequest(endpoint, p, reqs) ==
    [url |-> endpoint, method |-> "POST", body |-> [payload |-> p, requirements |-> reqs]]

\* A fetch that is sent again.
Fetch_Retried(sent, fetched) == sent \o <<fetched, fetched>>

\* await fetch(...): one request goes out, there is no loop around it.
Fetch(sent, fetched) == Append(sent, fetched)

\* The invalidReason tags POST /verify may answer with.
VerifyReasons ==
    {"invalid_spender", "invalid_recipient", "permit2_deadline_expired",
     "permit2_not_yet_valid", "insufficient_authorized_amount",
     "invalid_permit2_signature", "signature_verification_failed",
     "permit2_allowance_required", "allowance_check_failed", "insufficient_balance",
     "balance_check_failed", "missing_payload_or_requirements", "internal_error"}

\* The JSON bodies POST /verify may answer with for a payload.
FacilitatorVerifyBodies(p) ==
    {Valid(p.permit2Authorization.from)} \cup {Invalid(reason) : reason \in VerifyReasons}

\* The JSON bodies POST /settle may answer with for a payload: what settleUpto
\* returns for it, or the route's own error body.
FacilitatorSettleBodies(p) ==
    IF ExceedsAuthorization(p)
    THEN {SettleResult(FALSE, None, None, Some("settlement_exceeds_authorization"))}
    ELSE IF IsZeroSettlement(p)
    THEN {SettleResult(TRUE, None, Some(<<"0">>), None)}
    ELSE {SettleResult(TRUE, Some(hash), Some(SettlementAmountOf(p)), None) :
              hash \in ReceiptHashes}
         \cup {SettleResult(FALSE, Some(hash), None, Some("transaction_reverted")) :
                  hash \in TxHashes}
         \cup {SettleResult(FALSE, None, None, Some(reason)) :
                  reason \in {"insufficient_balance", "permit2_deadline_expired",
                              "execution reverted", "internal_error"}}

\* The headers the middleware adds once the settlement succeeded.
SettlementHeaders(body, p, consumed) ==
    ("X-Payment-Response" :>
        BtoaJson([success          |-> TRUE,
                  txHash           |-> body.txHash,
                  settledAmount    |-> body.settledAmount,
                  authorizedAmount |-> p.permit2Authorization.permitted.amount]))
    @@ ("X-Payment-Settled" :>
        IF body.settledAmount # None THEN Val(body.settledAmount) ELSE consumed)
    @@ ("X-Payment-TxHash" :> IF body.txHash # None THEN Val(body.txHash) ELSE "")

\* A middleware that answers 502 when the settlement did not succeed.
ResponseAfterSettlement_ErrorOnFailure(response, body, p, consumed) ==
    IF body.success
    THEN [response EXCEPT !.headers = SettlementHeaders(body, p, consumed)]
    ELSE [status |-> 502, body |-> "settlement failed", headers |-> <<>>]

\* A middleware that adds the settlement headers whatever the result says.
ResponseAfterSettlement_HeadersAlways(response, body, p, consumed) ==
    [response EXCEPT !.headers = SettlementHeaders(body, p, consumed)]

\* if (settlement.success) { c.header(...) x 3 }: status and body are left alone.
ResponseAfterSettlement(response, body, p, consumed) ==
    IF body.success
    THEN [response EXCEPT !.headers = SettlementHeaders(body, p, consumed)]
    ELSE response

\* What the downstream handler may respond.
HandlerResponses ==
    {[status |-> 200, body |-> "generated text", headers |-> <<>>],
     [status |-> 500, body |-> "handler failed", headers |-> <<>>]}

\* What the route's meter may return for an authorized amount: nothing consumed,
\* part of it, all of it, more than it.
MeterResults(authorized) ==
    {NumToString(0), NumToString(BigInt(authorized) \div 2), authorized,
     NumToString(BigInt(authorized) + 1)}

\* The request arrives: route match, requirements, payment header, decoding, and
\* the POST /verify that is sent.
MwReceive ==
    /\ request # None
    /\ mwPc = "idle"
    /\ LET route  == RouteConfig(request)
           reqs   == RouteRequirements[<<request.method, request.path>>]
           header == PaymentHeader(request)
           decoded == DecodePayload(Val(header))
       IN  IF route = None
           THEN /\ mwPc' = "passthrough"
                /\ events' = Append(events, "handler:start")
                /\ UNCHANGED <<mwRequirements, mwPayload, fetches, reply>>
           ELSE IF reqs = None
           THEN /\ mwPc' = "threw"
                /\ UNCHANGED <<mwRequirements, mwPayload, fetches, events, reply>>
           ELSE IF HeaderMissing(header)
           THEN /\ mwRequirements' = reqs
                /\ reply' = Some(JsonResponse(PaymentRequiredBody(Val(route), Val(reqs)), 402))
                /\ mwPc' = "done"
                /\ UNCHANGED <<mwPayload, fetches, events>>
           ELSE IF decoded = None
           THEN /\ mwRequirements' = reqs
                /\ reply' = Some(JsonResponse([error |-> "Invalid payment payload"], 400))
                /\ mwPc' = "done"
                /\ UNCHANGED <<mwPayload, fetches, events>>
           ELSE /\ mwRequirements' = reqs
                /\ mwPayload' = decoded
                /\ fetches' = Fetch(fetches,
                                     FacilitatorRequest("/verify", Val(decoded), Val(reqs)))
                /\ events' = Append(events, "POST /verify")
                /\ mwPc' = "await_verify"
                /\ reply' = reply
    /\ UNCHANGED <<request, mwVerification, consumedAmount, mwSettlement, res>>
    /\ UNCHANGED <<libVars, facVars, otherVars>>

\* fetch(`${facilitatorUrl}/verify`) rejects.
VerifyFetchFails ==
    /\ mwPc = "await_verify"
    /\ events' = Append(events, "verify:unreachable")
    /\ reply' = Some(JsonResponse([error |-> "Facilitator unavailable"], 503))
    /\ mwPc' = "done"
    /\ UNCHANGED <<request, mwRequirements, mwPayload, mwVerification, consumedAmount,
                   mwSettlement, fetches, res>>
    /\ UNCHANGED <<libVars, facVars, otherVars>>

\* verifyResponse.json() rejects: the exception leaves the middleware.
VerifyBodyUnreadable ==
    /\ mwPc = "await_verify"
    /\ events' = Append(events, "verify:unreadable")
    /\ mwPc' = "threw"
    /\ UNCHANGED <<request, mwRequirements, mwPayload, mwVerification, consumedAmount,
                   mwSettlement, fetches, res, reply>>
    /\ UNCHANGED <<libVars, facVars, otherVars>>

\* The /verify body is read: reject, or call next().
VerifyResponds ==
    /\ mwPc = "await_verify"
    /\ \E body \in FacilitatorVerifyBodies(Val(mwPayload)) :
          /\ mwVerification' = Some(body)
          /\ IF VerificationRejected(body)
             THEN /\ reply' = Some(JsonResponse(
                                     VerificationFailedBody(body, Val(mwRequirements)),
                                     VerificationFailureStatus(body)))
                  /\ events' = Append(events, "verify:returned")
                  /\ mwPc' = "done"
             ELSE /\ events' = events \o <<"verify:returned", "handler:start">>
                  /\ mwPc' = "in_handler"
                  /\ reply' = reply
    /\ UNCHANGED <<request, mwRequirements, mwPayload, consumedAmount, mwSettlement,
                   fetches, res>>
    /\ UNCHANGED <<libVars, facVars, otherVars>>

\* A middleware that reports every request to the facilitator, gated or not.
PassthroughReturns_Reported ==
    /\ mwPc = "passthrough"
    /\ \E response \in HandlerResponses : res' = Some(response)
    /\ events' = Append(events, "handler:end")
    /\ fetches' = Fetch(fetches, FacilitatorRequest("/verify", None, None))
    /\ mwPc' = "done"
    /\ UNCHANGED <<request, mwRequirements, mwPayload, mwVerification, consumedAmount,
                   mwSettlement, reply>>
    /\ UNCHANGED <<libVars, facVars, otherVars>>

\* next() of an ungated request resolves: the middleware is done.
PassthroughReturns ==
    /\ mwPc = "passthrough"
    /\ \E response \in HandlerResponses : res' = Some(response)
    /\ events' = Append(events, "handler:end")
    /\ mwPc' = "done"
    /\ UNCHANGED <<request, mwRequirements, mwPayload, mwVerification, consumedAmount,
                   mwSettlement, fetches, reply>>
    /\ UNCHANGED <<libVars, facVars, otherVars>>

\* await next() resolves: the meter is called.
HandlerReturns ==
    /\ mwPc = "in_handler"
    /\ \E response \in HandlerResponses : res' = Some(response)
    /\ events' = events \o <<"handler:end", "meter:start">>
    /\ mwPc' = "in_meter"
    /\ UNCHANGED <<request, mwRequirements, mwPayload, mwVerification, consumedAmount,
                   mwSettlement, fetches, reply>>
    /\ UNCHANGED <<libVars, facVars, otherVars>>

\* The meter throws: the exception leaves the middleware.
MeterThrows ==
    /\ mwPc = "in_meter"
    /\ events' = Append(events, "meter:threw")
    /\ mwPc' = "threw"
    /\ UNCHANGED <<request, mwRequirements, mwPayload, mwVerification, consumedAmount,
                   mwSettlement, fetches, res, reply>>
    /\ UNCHANGED <<libVars, facVars, otherVars>>

\* A middleware that clamps the meter's result to the authorized amount.
MeteredPayload_Clamped(p, consumed) ==
    [p EXCEPT !.settlementAmount =
        IF BigInt(consumed) > BigInt(p.permit2Authorization.permitted.amount)
        THEN Some(p.permit2Authorization.permitted.amount)
        ELSE Some(consumed)]

\* payload.settlementAmount = consumedAmount
MeteredPayload(p, consumed) == [p EXCEPT !.settlementAmount = Some(consumed)]

\* The meter returns: settlementAmount is written and POST /settle is sent.
MeterReturns ==
    /\ mwPc = "in_meter"
    /\ \E consumed \in MeterResults(Val(mwPayload).permit2Authorization.permitted.amount) :
          LET metered == MeteredPayload(Val(mwPayload), consumed)
          IN  /\ consumedAmount' = Some(consumed)
              /\ mwPayload' = Some(metered)
              /\ fetches' = Fetch(fetches,
                                   FacilitatorRequest("/settle", metered, Val(mwRequirements)))
    /\ events' = events \o <<"meter:end", "POST /settle">>
    /\ mwPc' = "await_settle"
    /\ UNCHANGED <<request, mwRequirements, mwVerification, mwSettlement, res, reply>>
    /\ UNCHANGED <<libVars, facVars, otherVars>>

\* The /settle body is read: on success the settlement headers are added.
SettleResponds ==
    /\ mwPc = "await_settle"
    /\ \E body \in FacilitatorSettleBodies(Val(mwPayload)) :
          /\ mwSettlement' = Some(body)
          /\ res' = Some(ResponseAfterSettlement(Val(res), body, Val(mwPayload),
                                                  Val(consumedAmount)))
    /\ events' = Append(events, "settle:returned")
    /\ mwPc' = "done"
    /\ UNCHANGED <<request, mwRequirements, mwPayload, mwVerification, consumedAmount,
                   fetches, reply>>
    /\ UNCHANGED <<libVars, facVars, otherVars>>

\* fetch of /settle or settleResponse.json() rejects: caught and logged.
SettleFails ==
    /\ mwPc = "await_settle"
    /\ events' = Append(events, "settle:failed")
    /\ mwPc' = "done"
    /\ UNCHANGED <<request, mwRequirements, mwPayload, mwVerification, consumedAmount,
                   mwSettlement, fetches, res, reply>>
    /\ UNCHANGED <<libVars, facVars, otherVars>>

\* ------------------------------------------------------------------------
\* Inputs of the middleware specification
\* ------------------------------------------------------------------------

\* A payload as createUptoPermit2Payload builds it: settlementAmount unset.
ClientPayload(amount) ==
    [signature |-> "0xvalidsignature",
     permit2Authorization |->
         [from      |-> PAYER,
          permitted |-> [token |-> USDC_BASE_SEPOLIA, amount |-> amount],
          spender   |-> X402_UPTO_PERMIT2_PROXY_ADDRESS,
          nonce     |-> <<"1", "2", "3", "4", "5">>,
          deadline  |-> NumToString(MaxTime),
          witness   |-> [to |-> PAY_TO, validAfter |-> NumToString(0), extra |-> "0x"]],
     settlementAmount |-> None]

\* The header values a client may send: empty, not base64, base64 of something
\* that is not JSON, and an encoded payload.
HeaderInputs ==
    {HeaderString("", Some([text |-> "", json |-> None])),
     HeaderString("!!!not-base64!!!", None),
     HeaderString("bm90IGpzb24=", Some([text |-> "not json", json |-> None])),
     BtoaJson(ClientPayload(<<"1", "0", "0", "0", "0", "0", "0">>)),
     BtoaJson(ClientPayload(<<"3">>))}

RequestInputs ==
    {[method |-> key[1], path |-> key[2], xPayment |-> xPayment,
      paymentSignature |-> alias] :
        key \in DOMAIN Routes \cup {<<"GET", "/health">>},
        xPayment \in {None} \cup {Some(h) : h \in HeaderInputs},
        alias \in {None, Some(BtoaJson(ClientPayload(<<"3">>)))}}

MwInit ==
    /\ LibIdle
    /\ FacIdle
    /\ OtherIdle
    /\ request \in RequestInputs
    /\ mwPc = "idle"
    /\ mwRequirements = None
    /\ mwPayload = None
    /\ mwVerification = None
    /\ consumedAmount = None
    /\ mwSettlement = None
    /\ fetches = <<>>
    /\ events = <<>>
    /\ res = None
    /\ reply = None

MwNext ==
    \/ MwReceive
    \/ VerifyFetchFails
    \/ VerifyBodyUnreadable
    \/ VerifyResponds
    \/ PassthroughReturns
    \/ HandlerReturns
    \/ MeterThrows
    \/ MeterReturns
    \/ SettleResponds
    \/ SettleFails

SpecMw == MwInit /\ [][MwNext]_vars

\* Either a call of the library or a request in the middleware.
SpecAll == (Init \/ MwInit) /\ [][Next \/ MwNext]_vars

\* The middleware's own steps, the handler, the meter and the /verify answer
\* are taken when they can be. The /settle fetch carries no timeout and the
\* facilitator answers it only after waitForTransactionReceipt, so nothing
\* obliges it to complete.
SpecMwLive ==
    /\ MwInit
    /\ [][MwNext]_vars
    /\ WF_vars(MwReceive)
    /\ WF_vars(VerifyResponds \/ VerifyFetchFails \/ VerifyBodyUnreadable)
    /\ WF_vars(PassthroughReturns)
    /\ WF_vars(HandlerReturns)
    /\ WF_vars(MeterReturns \/ MeterThrows)

\* ------------------------------------------------------------------------
\* Properties of the middleware
\* ------------------------------------------------------------------------

Gated == RouteConfig(request) # None

Occurred(event) == \E i \in 1..Len(events) : events[i] = event

\* Every occurrence of `later` has an occurrence of `earlier` before it.
Precedes(earlier, later) ==
    \A j \in 1..Len(events) :
        events[j] = later => \E i \in 1..(j - 1) : events[i] = earlier

Sent(endpoint) == \E i \in 1..Len(fetches) : fetches[i].url = endpoint

\* C8: within one gated request the steps occur in the order verify, handler,
\* meter, settle: the handler starts only after POST /verify was sent and its
\* answer said isValid = true, the meter starts only after the handler
\* finished, and POST /settle is sent only after the meter returned.
C8_VerifyHandlerMeterSettle ==
    Gated =>
        /\ Precedes("POST /verify", "verify:returned")
        /\ Precedes("verify:returned", "handler:start")
        /\ Occurred("handler:start") =>
               mwVerification # None /\ Val(mwVerification).isValid
        /\ Precedes("handler:start", "handler:end")
        /\ Precedes("handler:end", "meter:start")
        /\ Precedes("meter:start", "meter:end")
        /\ Precedes("meter:end", "POST /settle")
        /\ Sent("/settle") =>
               /\ Occurred("meter:end")
               /\ Len(fetches) = 2
               /\ fetches[1].url = "/verify"
               /\ fetches[2].url = "/settle"

C8_Witness ==
    /\ Gated
    /\ mwPc = "done"
    /\ events = <<"POST /verify", "verify:returned", "handler:start", "handler:end",
                  "meter:start", "meter:end", "POST /settle", "settle:returned">>

VerificationDidNotSucceed ==
    \/ Occurred("verify:unreachable")
    \/ Occurred("verify:unreadable")
    \/ mwVerification # None /\ ~Val(mwVerification).isValid

\* C9: when verification does not succeed the handler, the meter and POST /settle
\* are never invoked; the reply is 503 when the /verify call fails at transport
\* level, 412 when invalidReason is permit2_allowance_required and 402 for every
\* other invalidReason.
C9_FailedVerificationStopsRequest ==
    VerificationDidNotSucceed =>
        /\ ~Occurred("handler:start")
        /\ ~Occurred("meter:start")
        /\ ~Sent("/settle")
        /\ res = None
        /\ Occurred("verify:unreachable") =>
               /\ mwPc = "done"
               /\ Val(reply).status = 503
               /\ Val(reply).body.error = "Facilitator unavailable"
        /\ mwVerification # None =>
               /\ mwPc = "done"
               /\ Val(reply).body.reason = Val(mwVerification).invalidReason
               /\ Val(reply).status =
                      IF Val(mwVerification).invalidReason = Some("permit2_allowance_required")
                      THEN 412 ELSE 402

C9_Witness ==
    /\ mwVerification # None
    /\ Val(mwVerification).invalidReason = Some("permit2_allowance_required")
    /\ Val(reply).status = 412

C9_WitnessTransport == Occurred("verify:unreachable") /\ Val(reply).status = 503

C9_WitnessOther ==
    /\ mwVerification # None
    /\ Val(mwVerification).invalidReason = Some("insufficient_balance")
    /\ Val(reply).status = 402

NoPaymentHeader == request.xPayment = None /\ request.paymentSignature = None

\* C10: a request to a gated route that carries neither X-Payment nor
\* Payment-Signature is answered 402 with accepts = [the route's requirements],
\* with no call to the facilitator and without running the handler.
C10_MissingHeaderAnswered402 ==
    (Gated /\ NoPaymentHeader /\ mwPc # "idle") =>
        LET route == Val(RouteConfig(request))
        IN  /\ mwPc = "done"
            /\ Val(reply).status = 402
            /\ Val(reply).body.error = "Payment Required"
            /\ Len(Val(reply).body.accepts) = 1
            /\ Val(reply).body.accepts[1].scheme = "upto"
            /\ Val(reply).body.accepts[1].network = route.network
            /\ Val(reply).body.accepts[1].payTo = route.payTo
            /\ Val(reply).body.accepts[1].maxAmount = Val(ParseUsdcAmount(route.maxPrice))
            /\ Val(reply).body.accepts = <<Val(MwBuildRequirements(route))>>
            /\ fetches = <<>>
            /\ events = <<>>
            /\ res = None

C10_Witness ==
    /\ Gated
    /\ NoPaymentHeader
    /\ mwPc = "done"
    /\ Val(reply).status = 402

\* atob or JSON.parse throws on the header's value.
Undecodable(header) == header.atob = None \/ Val(header.atob).json = None

InvalidPayloadReply ==
    /\ mwPc = "done"
    /\ reply = Some(JsonResponse([error |-> "Invalid payment payload"], 400))
    /\ fetches = <<>>
    /\ events = <<>>
    /\ res = None

\* C11 as stated: a gated request whose payment header cannot be base64-decoded
\* and JSON-parsed is answered 400 { error: "Invalid payment payload" }, with no
\* call to the facilitator and without running the handler.
C11_UndecodableHeaderAnswered400_AnyValue ==
    (Gated /\ mwPc # "idle" /\ PaymentHeader(request) # None
           /\ Undecodable(Val(PaymentHeader(request)))) =>
        InvalidPayloadReply

\* C11: a gated request whose payment header is not empty and cannot be
\* base64-decoded and JSON-parsed is answered 400 { error: "Invalid payment
\* payload" }, with no call to the facilitator and without running the handler;
\* a header whose value is empty is answered as if it were absent.
C11_UndecodableHeaderAnswered400 ==
    (Gated /\ mwPc # "idle" /\ PaymentHeader(request) # None
           /\ Undecodable(Val(PaymentHeader(request)))) =>
        IF Val(PaymentHeader(request)).text = ""
        THEN mwPc = "done" /\ Val(reply).status = 402 /\ fetches = <<>> /\ events = <<>>
        ELSE InvalidPayloadReply

C11_Witness ==
    /\ Gated
    /\ PaymentHeader(request) # None
    /\ Val(PaymentHeader(request)).atob = None
    /\ mwPc = "done"
    /\ Val(reply).status = 400

C11_WitnessNotJson ==
    /\ Gated
    /\ PaymentHeader(request) # None
    /\ Val(PaymentHeader(request)).text = "bm90IGpzb24="
    /\ mwPc = "done"
    /\ Val(reply).status = 400

\* The handler of a verified request has produced its response.
HandlerResponded == Gated /\ Occurred("handler:end")

\* C12: once the handler has produced its response, the status and body the
\* client receives are the handler's, whether POST /settle succeeds, answers
\* success = false or throws: no step changes them, and the middleware never
\* puts a reply of its own in their place.
C12_SettlementLeavesResponseAlone ==
    /\ [](HandlerResponded => res # None /\ reply = None)
    /\ [][(HandlerResponded /\ res # None) =>
              /\ res' # None
              /\ Val(res').status = Val(res).status
              /\ Val(res').body = Val(res).body]_vars

C12_Witness ==
    /\ HandlerResponded
    /\ mwPc = "done"
    /\ mwSettlement # None
    /\ ~Val(mwSettlement).success
    /\ Val(res).status = 200

C12_WitnessThrows == HandlerResponded /\ mwPc = "done" /\ Occurred("settle:failed")

C12_WitnessSuccess ==
    HandlerResponded /\ mwPc = "done" /\ mwSettlement # None /\ Val(mwSettlement).success

\* The middleware has returned and the client is given the handler's response.
HandlerResponseDelivered == mwPc = "done" /\ res # None /\ reply = None

\* C13: for every verified request whose handler and meter return, the
\* middleware eventually returns the handler's response to the client whatever
\* the settle call does, the settle call not having completed included.
C13_ResponseNotHeldHostage ==
    (Gated /\ Occurred("meter:end")) ~> HandlerResponseDelivered

FetchCount(endpoint) == Cardinality({i \in 1..Len(fetches) : fetches[i].url = endpoint})

CallCount(method) == Cardinality({i \in 1..Len(calls) : calls[i].method = method})

\* C14: per gated request the middleware sends at most one POST /verify and at
\* most one POST /settle, and each settleUpto call issues at most one
\* writeContract; no path retries either.
C14_SingleAttempt ==
    /\ FetchCount("/verify") <= 1
    /\ FetchCount("/settle") <= 1
    /\ Len(fetches) <= 2
    /\ CallCount("writeContract") <= 1
    /\ CallCount("waitForTransactionReceipt") <= 1

C14_Witness ==
    /\ mwPc = "done"
    /\ Occurred("settle:failed")
    /\ FetchCount("/verify") = 1
    /\ FetchCount("/settle") = 1

C14_WitnessWrite ==
    /\ SettleReturned
    /\ ~Val(settlement).success
    /\ CallCount("writeContract") = 1

SettlementHeaderNames == {"X-Payment-Response", "X-Payment-Settled", "X-Payment-TxHash"}

\* JSON.parse(atob(value)) of a header value that holds encoded JSON.
DecodedJson(value) == Val(Val(value.atob).json)

SettlementSucceeded == mwSettlement # None /\ Val(mwSettlement).success

\* C15: the three settlement headers are on the response if and only if the
\* settle result has success = true. Then X-Payment-Settled is the settled
\* amount, which is the meter result; X-Payment-TxHash is the txHash, or empty
\* when there is none, the case of zero consumption; X-Payment-Response encodes
\* { success, txHash, settledAmount, authorizedAmount = permitted.amount }.
\* When the settlement fails or throws none of the three is present.
C15_SettlementHeaders ==
    (Gated /\ res # None) =>
        LET headers == Val(res).headers
        IN  IF SettlementSucceeded
            THEN /\ DOMAIN headers = SettlementHeaderNames
                 /\ headers["X-Payment-Settled"] = Val(Val(mwSettlement).settledAmount)
                 /\ BigInt(headers["X-Payment-Settled"]) = BigInt(Val(consumedAmount))
                 /\ headers["X-Payment-TxHash"] =
                        IF Val(mwSettlement).txHash = None THEN ""
                        ELSE Val(Val(mwSettlement).txHash)
                 /\ headers["X-Payment-TxHash"] = "" <=> BigInt(Val(consumedAmount)) = 0
                 /\ DecodedJson(headers["X-Payment-Response"]) =
                        [success          |-> TRUE,
                         txHash           |-> Val(mwSettlement).txHash,
                         settledAmount    |-> Val(mwSettlement).settledAmount,
                         authorizedAmount |->
                             Val(mwPayload).permit2Authorization.permitted.amount]
            ELSE DOMAIN headers \cap SettlementHeaderNames = {}

C15_Witness ==
    /\ Gated
    /\ SettlementSucceeded
    /\ Val(res).headers["X-Payment-TxHash"] = "0xtxhash"
    /\ Val(res).headers["X-Payment-Settled"] = <<"1">>

C15_WitnessZero ==
    /\ Gated
    /\ SettlementSucceeded
    /\ Val(res).headers["X-Payment-TxHash"] = ""
    /\ Val(res).headers["X-Payment-Settled"] = <<"0">>

C15_WitnessFailed ==
    /\ Gated
    /\ mwPc = "done"
    /\ mwSettlement # None
    /\ ~Val(mwSettlement).success
    /\ Val(res).headers = <<>>

\* ------------------------------------------------------------------------
\* Facilitator server: POST /verify, POST /settle and the audit store
\* ------------------------------------------------------------------------

\* Largest number of requests the facilitator receives in one behaviour.
MaxRequests == 2

\* recordVerification: INSERT without OR IGNORE, on a table without UNIQUE.
RecordVerification_PlainInsert(rows, record) ==
    Append(rows, [id                |-> Len(rows) + 1,
                  payer             |-> record.payer,
                  recipient         |-> record.recipient,
                  token             |-> record.token,
                  authorized_amount |-> record.authorized_amount,
                  settled_amount    |-> None,
                  nonce             |-> record.nonce,
                  tx_hash           |-> None,
                  status            |-> "verified",
                  network           |-> record.network])

\* recordVerification: INSERT OR REPLACE, the row of the nonce is written anew.
RecordVerification_Replace(rows, record) ==
    IF \E i \in 1..Len(rows) : rows[i].nonce = record.nonce
    THEN [i \in 1..Len(rows) |->
             IF rows[i].nonce = record.nonce
             THEN [rows[i] EXCEPT !.payer = record.payer,
                                  !.recipient = record.recipient,
                                  !.token = record.token,
                                  !.authorized_amount = record.authorized_amount,
                                  !.settled_amount = None,
                                  !.tx_hash = None,
                                  !.status = "verified",
                                  !.network = record.network]
             ELSE rows[i]]
    ELSE Append(rows, [id                |-> Len(rows) + 1,
                       payer             |-> record.payer,
                       recipient         |-> record.recipient,
                       token             |-> record.token,
                       authorized_amount |-> record.authorized_amount,
                       settled_amount    |-> None,
                       nonce             |-> record.nonce,
                       tx_hash           |-> None,
                       status            |-> "verified",
                       network           |-> record.network])

\* recordVerification: INSERT OR IGNORE on a table whose nonce column is UNIQUE.
RecordVerification(rows, record) ==
    IF \E i \in 1..Len(rows) : rows[i].nonce = record.nonce
    THEN rows
    ELSE Append(rows, [id                |-> Len(rows) + 1,
                       payer             |-> record.payer,
                       recipient         |-> record.recipient,
                       token             |-> record.token,
                       authorized_amount |-> record.authorized_amount,
                       settled_amount    |-> None,
                       nonce             |-> record.nonce,
                       tx_hash           |-> None,
                       status            |-> "verified",
                       network           |-> record.network])

\* recordSettlement: UPDATE ... SET settled_amount, tx_hash, status = 'settled'
\* WHERE nonce = ?
RecordSettlement(rows, nonce, settledAmount, hash) ==
    [i \in 1..Len(rows) |->
        IF rows[i].nonce = nonce
        THEN [rows[i] EXCEPT !.settled_amount = Some(settledAmount),
                             !.tx_hash = Some(hash),
                             !.status = "settled"]
        ELSE rows[i]]

\* recordFailure: UPDATE ... SET status = 'failed', settled_amount = error
\* WHERE nonce = ?
RecordFailure(rows, nonce, error) ==
    [i \in 1..Len(rows) |->
        IF rows[i].nonce = nonce
        THEN [rows[i] EXCEPT !.settled_amount = Some(error), !.status = "failed"]
        ELSE rows[i]]

\* The PaymentRecord POST /verify hands to recordVerification.
VerificationRecord(p, r) ==
    [payer             |-> p.permit2Authorization.from,
     recipient         |-> p.permit2Authorization.witness.to,
     token             |-> p.permit2Authorization.permitted.token,
     authorized_amount |-> p.permit2Authorization.permitted.amount,
     nonce             |-> p.permit2Authorization.nonce,
     status            |-> "verified",
     network           |-> r.network]

\* What the facilitatorSigner answers from a state of the chain.
ChainVerifyTypedData(p) == Returned(p.signature = "0xvalidsignature")

ChainAllowance(c) == Returned(c.allowance)

ChainBalanceOf(c) == Returned(c.balance)

\* The VerifyResult of verifyUpto at time t against the chain c: the eight checks
\* in the order of the code.
VerifyUptoResult(p, r, t, c) ==
    LET failures == <<LocalCheckFailure(p, r, t),
                      SignatureFailure(ChainVerifyTypedData(p)),
                      AllowanceFailure(p, ChainAllowance(c)),
                      BalanceFailure(p, ChainBalanceOf(c))>>
        failing  == {i \in 1..4 : failures[i] # None}
    IN  IF failing = {} THEN Valid(p.permit2Authorization.from)
        ELSE Invalid(Val(failures[CHOOSE i \in failing : \A j \in failing : i <= j]))

\* The proxy's settle reverts: the Permit2 nonce is used, or the payer's balance
\* or allowance does not cover the amount.
ChainRejects(c, p) ==
    \/ p.permit2Authorization.nonce \in c.used
    \/ c.balance < BigInt(SettlementAmountOf(p))
    \/ c.allowance < BigInt(SettlementAmountOf(p))

\* The chain after the proxy's settle went through.
ChainAfterSettle(c, p) ==
    [c EXCEPT !.used = @ \cup {p.permit2Authorization.nonce},
              !.balance = @ - BigInt(SettlementAmountOf(p))]

\* The hash of the transaction sent for the i-th request.
TxHashOf(i) == <<"0xtx", i>>

\* The message of the error waitForTransactionReceipt throws when no receipt
\* came in time.
RECEIPT_TIMEOUT == "Timed out while waiting for transaction receipt"

\* A /verify handler that consults the audit store.
VerifyResponseBody_GatedByStore(result, rows, p) ==
    IF \E i \in 1..Len(rows) :
           rows[i].nonce = p.permit2Authorization.nonce /\ rows[i].status # "verified"
    THEN Invalid("nonce_already_settled")
    ELSE result

\* res.json(result): the store is not read.
VerifyResponseBody(result, rows, p) == result

\* if (result.success && result.txHash)
SettlementRecorded(result) == result.success /\ result.txHash # None

\* result.settledAmount ?? payload.settlementAmount ?? "0"
RecordedAmount(result, p) ==
    IF result.settledAmount # None THEN Val(result.settledAmount)
    ELSE IF p.settlementAmount # None THEN Val(p.settlementAmount)
    ELSE <<"0">>

\* result.error ?? "unknown"
RecordedError(result) == IF result.error # None THEN Val(result.error) ELSE "unknown"

\* The audit write of POST /settle for a settleUpto result.
AuditSettle(rows, p, result) ==
    IF SettlementRecorded(result)
    THEN RecordSettlement(rows, p.permit2Authorization.nonce, RecordedAmount(result, p),
                          Val(result.txHash))
    ELSE RecordFailure(rows, p.permit2Authorization.nonce, RecordedError(result))

\* A request of the facilitator from its arrival on. `concurrentWith` are the
\* requests still in progress when it arrived; `seen` is what the handler read
\* when verifyUpto ran: the clock, the chain, and the rows the store held then.
Arrived(endpoint, body, others) ==
    [endpoint       |-> endpoint,
     body           |-> body,
     pc             |-> "pending",
     concurrentWith |-> others,
     seen           |-> None,
     result         |-> None,
     response       |-> None]

\* An endpoint that answers a body without payload or requirements with 200.
MissingBodyResponse_Accepted(endpoint) ==
    JsonResponse(Invalid("missing_payload_or_requirements"), 200)

\* if (!payload || !requirements) of either endpoint
MissingBodyResponse(endpoint) ==
    IF endpoint = "/verify"
    THEN JsonResponse(Invalid("missing_payload_or_requirements"), 400)
    ELSE JsonResponse(SettleResult(FALSE, None, None,
                                   Some("missing_payload_or_requirements")), 400)

Snapshot == Some([clock |-> serverClock, chain |-> chain, rows |-> db])

FacNonces == {<<"1">>, <<"2">>}

FacPayload(nonce, settle) ==
    [ClientPayload(NumToString(MaxAmount)) EXCEPT
        !.permit2Authorization.nonce = nonce,
        !.settlementAmount = settle]

FacRequirements ==
    [scheme |-> "upto", network |-> BASE_SEPOLIA, asset |-> USDC_BASE_SEPOLIA,
     maxAmount |-> NumToString(MaxAmount), payTo |-> PAY_TO, maxTimeoutSeconds |-> 300]

\* The settlementAmount of a /settle body: absent, zero, a part of the
\* authorized amount, more than it.
FacSettlementAmounts ==
    {None, Some(NumToString(0)), Some(NumToString(1)), Some(NumToString(MaxAmount + 1))}

\* The JSON bodies a client posts: nothing usable, or a payload with requirements.
FacBodies(endpoint) ==
    {None} \cup
    {Some([payload |-> FacPayload(nonce, settle), requirements |-> FacRequirements]) :
        nonce \in FacNonces,
        settle \in IF endpoint = "/verify" THEN {None} ELSE FacSettlementAmounts}

\* A request with this body arrives at an endpoint; one without payload or
\* requirements is answered at once.
Receives(endpoint, body) ==
    /\ Len(inflight) < MaxRequests
    /\ LET others  == {i \in 1..Len(inflight) : inflight[i].pc # "done"}
           arrived == Arrived(endpoint, body, others)
       IN  inflight' =
              Append(inflight,
                     IF body = None
                     THEN [arrived EXCEPT
                              !.pc = "done",
                              !.response = Some(MissingBodyResponse(endpoint))]
                     ELSE arrived)
    /\ UNCHANGED <<db, chain, serverClock>>
    /\ UNCHANGED <<libVars, mwVars, otherVars>>

\* A request arrives.
FacReceive ==
    \E endpoint \in {"/verify", "/settle"} :
       \E body \in FacBodies(endpoint) : Receives(endpoint, body)

\* POST /verify: verifyUpto resolves, a valid result is recorded, the result is
\* the response.
VerifyCompletes ==
    /\ \E i \in 1..Len(inflight) :
          /\ inflight[i].endpoint = "/verify"
          /\ inflight[i].pc = "pending"
          /\ LET p      == Val(inflight[i].body).payload
                 r      == Val(inflight[i].body).requirements
                 result == VerifyUptoResult(p, r, serverClock, chain)
             IN  /\ db' = IF result.isValid
                          THEN RecordVerification(db, VerificationRecord(p, r))
                          ELSE db
                 /\ inflight' =
                       [inflight EXCEPT
                           ![i].pc = "done",
                           ![i].seen = Snapshot,
                           ![i].result = Some(result),
                           ![i].response =
                               Some(JsonResponse(VerifyResponseBody(result, db, p), 200))]
    /\ UNCHANGED <<chain, serverClock>>
    /\ UNCHANGED <<libVars, mwVars, otherVars>>

\* POST /settle: settleUpto up to writeContract. The clamp, the zero case and a
\* failed re-verification resolve it; otherwise the transaction is sent.
SettleBegins ==
    /\ \E i \in 1..Len(inflight) :
          /\ inflight[i].endpoint = "/settle"
          /\ inflight[i].pc = "pending"
          /\ LET p == Val(inflight[i].body).payload
                 r == Val(inflight[i].body).requirements
                 v == VerifyUptoResult(p, r, serverClock, chain)
                 resolved(result) ==
                     [inflight EXCEPT ![i].pc = "resolved", ![i].result = Some(result)]
             IN  inflight' =
                    IF ExceedsAuthorization(p)
                    THEN resolved(SettleResult(FALSE, None, None,
                                               Some("settlement_exceeds_authorization")))
                    ELSE IF IsZeroSettlement(p)
                    THEN resolved(SettleResult(TRUE, None, Some(<<"0">>), None))
                    ELSE IF ReverificationFailed(v)
                    THEN resolved(SettleResult(FALSE, None, None, v.invalidReason))
                    ELSE [inflight EXCEPT ![i].pc = "submitted", ![i].seen = Snapshot]
    /\ UNCHANGED <<db, chain, serverClock>>
    /\ UNCHANGED <<libVars, mwVars, otherVars>>

\* What settleUpto returns for a transaction that went through: the receipt,
\* or the error waitForTransactionReceipt threw while it waited for it.
SettledOutcomes(p, hash) ==
    {SettleResult(TRUE, Some(hash), Some(SettlementAmountOf(p)), None),
     SettleResult(FALSE, None, None, Some(RECEIPT_TIMEOUT))}

\* What settleUpto returns for a transaction the chain rejects: writeContract
\* threw on it, or it was mined and reverted.
RejectedOutcomes(hash) ==
    {SettleResult(FALSE, None, None, Some("execution reverted")),
     SettleResult(FALSE, Some(hash), None, Some("transaction_reverted"))}

\* The transaction of a /settle request comes back from the chain: it went
\* through, with or without a receipt in time, writeContract threw on it, or it
\* was mined and reverted.
TransactionCompletes ==
    /\ \E i \in 1..Len(inflight) :
          /\ inflight[i].pc = "submitted"
          /\ LET p == Val(inflight[i].body).payload
             IN  IF ChainRejects(chain, p)
                 THEN /\ \E result \in RejectedOutcomes(TxHashOf(i)) :
                            inflight' = [inflight EXCEPT ![i].pc = "resolved",
                                                         ![i].result = Some(result)]
                      /\ chain' = chain
                 ELSE /\ \E result \in SettledOutcomes(p, TxHashOf(i)) :
                            inflight' = [inflight EXCEPT ![i].pc = "resolved",
                                                         ![i].result = Some(result)]
                      /\ chain' = ChainAfterSettle(chain, p)
    /\ UNCHANGED <<db, serverClock>>
    /\ UNCHANGED <<libVars, mwVars, otherVars>>

\* POST /settle after settleUpto resolved: the audit write, then res.json(result).
SettleRecords ==
    /\ \E i \in 1..Len(inflight) :
          /\ inflight[i].pc = "resolved"
          /\ db' = AuditSettle(db, Val(inflight[i].body).payload, Val(inflight[i].result))
          /\ inflight' = [inflight EXCEPT
                             ![i].pc = "done",
                             ![i].response =
                                 Some(JsonResponse(Val(inflight[i].result), 200))]
    /\ UNCHANGED <<chain, serverClock>>
    /\ UNCHANGED <<libVars, mwVars, otherVars>>

\* The store is empty or holds the row of an earlier verification; the payer
\* has funds and a Permit2 allowance, or has not.
FacInit ==
    /\ LibIdle
    /\ MwIdle
    /\ OtherIdle
    /\ db \in {<<>>,
               RecordVerification(<<>>, VerificationRecord(FacPayload(<<"1">>, None),
                                                           FacRequirements))}
    /\ inflight = <<>>
    /\ chain \in {[balance |-> balance, allowance |-> allowance, used |-> {}] :
                     balance \in {0, 2 * MaxAmount}, allowance \in {0, 2 * MaxAmount}}
    /\ serverClock \in {0, MaxTime}

FacNext ==
    \/ FacReceive
    \/ VerifyCompletes
    \/ SettleBegins
    \/ TransactionCompletes
    \/ SettleRecords

SpecFac == FacInit /\ [][FacNext]_vars

\* ------------------------------------------------------------------------
\* Properties of the facilitator server and the audit store
\* ------------------------------------------------------------------------

NonceOf(i) == Val(inflight[i].body).payload.permit2Authorization.nonce

Done(i, endpoint) ==
    /\ inflight[i].endpoint = endpoint
    /\ inflight[i].body # None
    /\ inflight[i].pc = "done"

RowsOf(rows, nonce) == {k \in 1..Len(rows) : rows[k].nonce = nonce}

\* C16: after any sequence and interleaving of POST /verify and POST /settle
\* calls the audit store holds at most one row per nonce; two /verify calls
\* with the same payload insert at most one row.
C16_OneRowPerNonce ==
    /\ \A nonce \in FacNonces : Cardinality(RowsOf(db, nonce)) <= 1
    /\ \A k \in 1..Len(db) : db[k].nonce \in FacNonces

C16_Witness ==
    /\ Len(inflight) = 2
    /\ Done(1, "/verify")
    /\ Done(2, "/verify")
    /\ Val(inflight[1].result).isValid
    /\ Val(inflight[2].result).isValid
    /\ NonceOf(1) = <<"2">>
    /\ NonceOf(2) = <<"2">>
    /\ Cardinality(RowsOf(db, <<"2">>)) = 1

\* C17: the status of an audit row is monotonic: over any sequence of /verify
\* and /settle calls it only ever changes verified -> settled or verified ->
\* failed; a settled row never becomes failed or verified, a failed row never
\* becomes settled or verified.
C17_StatusMonotonic ==
    [][\A k \in 1..Len(db) :
          /\ k <= Len(db')
          /\ db'[k].nonce = db[k].nonce
          /\ \/ db'[k].status = db[k].status
             \/ db[k].status = "verified" /\ db'[k].status \in {"settled", "failed"}]_vars

\* The step in which the /settle request i makes its audit write and responds.
SettleAnswered(i) ==
    /\ i <= Len(inflight)
    /\ inflight[i].endpoint = "/settle"
    /\ inflight[i].pc = "resolved"
    /\ inflight'[i].pc = "done"

\* C18: after a POST /settle for a nonce that has an audit row, the row has
\* status settled, with the settled_amount and tx_hash of the result, when the
\* settler result has success = true and a txHash; it has status failed only
\* when the result has success = false: a result with success = true never
\* marks the row failed.
C18_AuditFollowsSettleResult ==
    [][\A i \in 1..MaxRequests :
          SettleAnswered(i) =>
              \A k \in RowsOf(db', NonceOf(i)) :
                  LET result == Val(inflight[i].result)
                  IN  /\ (result.success /\ result.txHash # None) =>
                             /\ db'[k].status = "settled"
                             /\ db'[k].settled_amount = result.settledAmount
                             /\ db'[k].tx_hash = result.txHash
                      /\ result.success => db'[k].status # "failed"]_vars

\* Two /settle requests for one nonce ran concurrently: one was still in
\* progress when the other arrived.
ConcurrentSettles(i, j) ==
    /\ i # j
    /\ Done(i, "/settle")
    /\ Done(j, "/settle")
    /\ NonceOf(i) = NonceOf(j)
    /\ i \in inflight[j].concurrentWith \/ j \in inflight[i].concurrentWith

\* The chain accepted the transaction of i and turned down that of j.
WonOver(i, j) ==
    /\ inflight[i].seen # None
    /\ inflight[j].seen # None
    /\ Val(inflight[i].result).success
    /\ Val(inflight[i].result).txHash # None
    /\ ~Val(inflight[j].result).success

\* C19: when two POST /settle calls for the same nonce run concurrently and the
\* chain accepts exactly one of them, then after both calls complete, in every
\* interleaving of their audit writes, the audit row of the nonce records the
\* final on-chain status: settled, with the tx_hash and the settled amount of
\* the winning transaction.
C19_RaceRecordsWinner ==
    \A i, j \in 1..Len(inflight) :
        (ConcurrentSettles(i, j) /\ WonOver(i, j)) =>
            \A k \in RowsOf(db, NonceOf(i)) :
                /\ db[k].status = "settled"
                /\ db[k].tx_hash = Val(inflight[i].result).txHash
                /\ db[k].settled_amount = Val(inflight[i].result).settledAmount

\* The clock and the chain the /verify request i was verified against.
VerifiedAgainst(i) ==
    [clock |-> Val(inflight[i].seen).clock, chain |-> Val(inflight[i].seen).chain]

\* C20: verification never depends on the audit store: for the same payload,
\* requirements, clock and chain state POST /verify returns the same result
\* whatever rows the store holds, whether or not there is a row for the nonce
\* and whatever its status.
C20_VerifyIgnoresAuditStore ==
    /\ \A i \in 1..Len(inflight) :
          Done(i, "/verify") =>
              Val(inflight[i].response).body =
                  VerifyUptoResult(Val(inflight[i].body).payload,
                                   Val(inflight[i].body).requirements,
                                   VerifiedAgainst(i).clock, VerifiedAgainst(i).chain)
    /\ \A i, j \in 1..Len(inflight) :
          (/\ Done(i, "/verify")
           /\ Done(j, "/verify")
           /\ inflight[i].body = inflight[j].body
           /\ VerifiedAgainst(i) = VerifiedAgainst(j)) =>
              Val(inflight[i].response).body = Val(inflight[j].response).body

\* A payload verified as valid while its nonce had a row that was settled.
C20_Witness ==
    \E i \in 1..Len(inflight) :
        /\ Done(i, "/verify")
        /\ Val(inflight[i].response).body.isValid
        /\ \E k \in RowsOf(Val(inflight[i].seen).rows, NonceOf(i)) :
              Val(inflight[i].seen).rows[k].status = "settled"

\* The same payload verified twice, with and without a row for its nonce.
C20_WitnessTwice ==
    /\ Len(inflight) = 2
    /\ Done(1, "/verify")
    /\ Done(2, "/verify")
    /\ inflight[1].body = inflight[2].body
    /\ Val(inflight[1].response).body.isValid
    /\ RowsOf(Val(inflight[1].seen).rows, NonceOf(1)) = {}
    /\ RowsOf(Val(inflight[2].seen).rows, NonceOf(2)) # {}

\* ------------------------------------------------------------------------
\* Payment client: createUptoPermit2Payload
\* ------------------------------------------------------------------------

\* A parseChainId that, like the facilitator's, takes any string.
ClientParseChainId_Unchecked(network) == Returned(FacilitatorParseChainId(network))

\* parseChainId of the client: exactly two parts, the first one "eip155".
ClientParseChainId(network) ==
    LET parts == Split(network, ":")
    IN  IF Len(parts) # 2 \/ parts[1] # <<"eip155">>
        THEN Threw([isError |-> TRUE, message |-> "Unsupported network format"])
        ELSE Returned(ParseInt(parts[2]))

\* The deadline and validAfter the builder computes from Date.now() / 1000 = t.
ClientDeadline(r, t) == t + r.maxTimeoutSeconds

ClientValidAfter(t) == t - 60

\* The request the builder hands to signer.signTypedData.
SignTypedDataCall(r, chainId, t, nonce) ==
    [method      |-> "signTypedData",
     domain      |-> [name |-> "Permit2", chainId |-> chainId,
                      verifyingContract |-> PERMIT2_ADDRESS],
     primaryType |-> "PermitWitnessTransferFrom",
     message     |->
         [permitted |-> [token |-> r.asset, amount |-> r.maxAmount],
          spender   |-> X402_UPTO_PERMIT2_PROXY_ADDRESS,
          nonce     |-> BigInt(nonce),
          deadline  |-> ClientDeadline(r, t),
          witness   |-> [to |-> r.payTo, validAfter |-> ClientValidAfter(t),
                         extra |-> "0x"]]]

\* The payload the builder returns once the signer answered with a signature.
BuiltPayload_DeadlineNow(address, r, t, nonce, signature) ==
    [signature |-> signature,
     permit2Authorization |->
         [from      |-> address,
          permitted |-> [token |-> r.asset, amount |-> r.maxAmount],
          spender   |-> X402_UPTO_PERMIT2_PROXY_ADDRESS,
          nonce     |-> nonce,
          deadline  |-> NumToString(t),
          witness   |-> [to |-> r.payTo,
                         validAfter |-> NumToString(ClientValidAfter(t)),
                         extra |-> "0x"]],
     settlementAmount |-> None]

BuiltPayload(address, r, t, nonce, signature) ==
    [signature |-> signature,
     permit2Authorization |->
         [from      |-> address,
          permitted |-> [token |-> r.asset, amount |-> r.maxAmount],
          spender   |-> X402_UPTO_PERMIT2_PROXY_ADDRESS,
          nonce     |-> nonce,
          deadline  |-> NumToString(ClientDeadline(r, t)),
          witness   |-> [to |-> r.payTo,
                         validAfter |-> NumToString(ClientValidAfter(t)),
                         extra |-> "0x"]],
     settlementAmount |-> None]

\* Math.random() scaled to 48 bits, as far as the model draws it.
ClientNonces == {<<"1">>, <<"1", "2", "3", "4", "5">>}

\* createUptoPermit2Payload from its entry to its await: parses the network,
\* reads the clock, draws the nonce and calls signer.signTypedData; an
\* unsupported network is thrown before anything else happens.
CreateUptoPermit2Payload ==
    /\ client # None
    /\ client.pc = "call"
    /\ LET chainId == ClientParseChainId(Val(client.requirements).network)
       IN  IF chainId.threw
           THEN client' = [client EXCEPT !.pc = "done", !.thrown = Some(chainId.value)]
           ELSE \E nonce \in ClientNonces :
                   client' = [client EXCEPT
                                 !.pc = "await_signTypedData",
                                 !.builtAt = Some(clock),
                                 !.nonce = Some(nonce),
                                 !.calls = Append(@, SignTypedDataCall(
                                               Val(client.requirements), chainId.value,
                                               clock, nonce))]
    /\ UNCHANGED <<libVars, mwVars, facVars, stats>>

\* The signer answers with a signature: the builder returns the payload.
SignTypedDataReturns ==
    /\ client # None
    /\ client.pc = "await_signTypedData"
    /\ client' = [client EXCEPT
                     !.pc = "done",
                     !.returned = Some(BuiltPayload(client.address, Val(client.requirements),
                                                    Val(client.builtAt), Val(client.nonce),
                                                    "0xvalidsignature"))]
    /\ UNCHANGED <<libVars, mwVars, facVars, stats>>

\* The signer throws: there is no try around the await, the builder rejects with
\* the value thrown.
SignTypedDataThrows ==
    /\ client # None
    /\ client.pc = "await_signTypedData"
    /\ \E e \in Thrown :
          client' = [client EXCEPT !.pc = "done", !.thrown = Some(e)]
    /\ UNCHANGED <<libVars, mwVars, facVars, stats>>

\* The caller hands the payload it got, with the requirements it was built for,
\* to the facilitator library.
SubmitPayload ==
    /\ client # None
    /\ client.pc = "done"
    /\ client.returned # None
    /\ op = "none"
    /\ payload' = Val(client.returned)
    /\ requirements' = Val(client.requirements)
    /\ op' \in {"verifyUpto", "settleUpto"}
    /\ pc' = "call"
    /\ UNCHANGED <<clock, now, calls, answers, verification, settlement, txHash>>
    /\ UNCHANGED <<mwVars, facVars, otherVars>>

\* Known USDC addresses by CAIP-2 network id.
USDC_ADDRESSES == (BASE_MAINNET :> USDC_BASE_MAINNET) @@ (BASE_SEPOLIA :> USDC_BASE_SEPOLIA)

\* A scheme whose default token is the Sepolia one on every network.
DefaultAsset_SepoliaAlways(network) == Some(USDC_BASE_SEPOLIA)

\* USDC_ADDRESSES[config.network]: undefined for a network that is not a key.
DefaultAsset(network) ==
    IF network \in DOMAIN USDC_ADDRESSES THEN Some(USDC_ADDRESSES[network]) ELSE None

\* UptoEvmServerScheme.buildRequirements: the requirements of a route config, or
\* the Error it throws.
BuildRequirements(config) ==
    LET asset == IF config.asset # None THEN config.asset ELSE DefaultAsset(config.network)
        units == ParseUsdcAmount(config.maxPrice)
    IN  IF asset = None
        THEN Threw([isError |-> TRUE, message |-> "No default token for network"])
        ELSE IF units = None
        THEN Threw([isError |-> TRUE, message |-> "Invalid price"])
        ELSE Returned([scheme            |-> "upto",
                       network           |-> config.network,
                       asset             |-> Val(asset),
                       maxAmount         |-> Val(units),
                       payTo             |-> config.payTo,
                       maxTimeoutSeconds |-> IF config.maxTimeoutSeconds = None THEN 300
                                             ELSE Val(config.maxTimeoutSeconds)])

\* The server builds the requirements of the route; the client receives them
\* (in the accepts of a 402) and calls the builder with them.
ServerBuildsRequirements ==
    /\ client # None
    /\ client.pc = "buildRequirements"
    /\ LET built == BuildRequirements(client.config)
       IN  IF built.threw
           THEN client' = [client EXCEPT !.pc = "done", !.thrown = Some(built.value)]
           ELSE client' = [client EXCEPT !.pc = "call", !.requirements = Some(built.value)]
    /\ UNCHANGED <<libVars, mwVars, facVars, stats>>

\* Network ids a route may name: the supported ones, ids whose second part is
\* not a number or is empty, another namespace, and ids with one or three parts.
ClientNetworks ==
    {BASE_SEPOLIA,
     BASE_MAINNET,
     <<"eip155", ":", "a", "b", "c">>,
     <<"eip155", ":">>,
     <<"solana", ":", "1">>,
     <<"eip155">>,
     <<"eip155", ":", "1", ":", "2">>}

ClientTimeouts == {None, Some(0), Some(1), Some(MaxTime)}

\* Prices in dollars: every amount of 0 .. MaxAmount token units, written with
\* and without the dollar sign, and two strings parseUsdcAmount rejects.
PriceInputs ==
    {<<"0", ".", "0", "0", "0", "0", "0">> \o NumToString(n) : n \in 0..MaxAmount}
        \cup {<<"$", "0", ".", "0", "0", "0", "0", "0", "1">>, <<"f", "r", "e", "e">>,
              <<"-", "1">>}

RouteConfigInputs ==
    [maxPrice : PriceInputs, network : ClientNetworks, payTo : {PAY_TO},
     asset : {None, Some(USDC_BASE_SEPOLIA)}, maxTimeoutSeconds : ClientTimeouts]

ClientInit ==
    /\ MwIdle
    /\ FacIdle
    /\ stats = None
    /\ \E config \in RouteConfigInputs :
          client = [pc |-> "buildRequirements", config |-> config, address |-> PAYER,
                    requirements |-> None, builtAt |-> None, nonce |-> None,
                    calls |-> <<>>, returned |-> None, thrown |-> None]
    /\ payload = None
    /\ requirements = None
    /\ clock \in 0..MaxTime
    /\ op = "none"
    /\ pc = "done"
    /\ now = None
    /\ calls = <<>>
    /\ answers = <<>>
    /\ verification = None
    /\ settlement = None
    /\ txHash = None

ClientNext ==
    \/ ServerBuildsRequirements
    \/ CreateUptoPermit2Payload
    \/ SignTypedDataReturns
    \/ SignTypedDataThrows
    \/ SubmitPayload

SpecClient == ClientInit /\ [][ClientNext \/ Next]_vars

\* ------------------------------------------------------------------------
\* Properties of the payment client
\* ------------------------------------------------------------------------

\* The builder returned a payload and the library was called with it.
Submitted == client # None /\ op # "none"

\* Every answer the facilitator's signer gave to verifyUpto was favourable: the
\* signature valid, allowance and balance at least the permitted amount.
SignerFavourable ==
    \A i \in 1..Len(answers) :
        /\ calls[i].method = "verifyTypedData" =>
              ~answers[i].threw /\ answers[i].value = TRUE
        /\ calls[i].method = "readContract" =>
              /\ ~answers[i].threw
              /\ answers[i].value >= BigInt(Auth.permitted.amount)

\* C21: the payload createUptoPermit2Payload built at time t for requirements
\* with an eip155 network passes verifyUpto against the same requirements at
\* every time t' with t <= t' < t + maxTimeoutSeconds, when the facilitator's
\* signer reports the signature valid and allowance and balance sufficient.
C21_BuiltPayloadVerifies ==
    (/\ Submitted
     /\ VerifyReturned
     /\ SignerFavourable
     /\ Val(client.builtAt) <= Val(now)
     /\ Val(now) < ClientDeadline(Val(client.requirements), Val(client.builtAt)))
        => Val(verification) = Valid(client.address)

C21_Witness ==
    /\ Submitted
    /\ op = "verifyUpto"
    /\ VerifyReturned
    /\ Val(now) > Val(client.builtAt)
    /\ Val(now) + 1 = ClientDeadline(Val(client.requirements), Val(client.builtAt))
    /\ Val(client.requirements).network = BASE_SEPOLIA
    /\ Val(verification).isValid

\* ------------------------------------------------------------------------
\* Properties of the chain write of settleUpto
\* ------------------------------------------------------------------------

\* The last call settleUpto made on the signer and what the signer answered.
LastCall == calls[Len(answers)]

LastAnswer == answers[Len(answers)]

\* settleUpto returned after it had called writeContract.
ReturnedAfterWrite == SettleReturned /\ HasCall("writeContract")

\* The hash writeContract returned, when the receipt was waited for.
WrittenHash == answers[Len(answers) - 1].value

\* The amount the settler works with, read off the payload.
ExpectedAmount ==
    IF payload.settlementAmount = None THEN Auth.permitted.amount
    ELSE Val(payload.settlementAmount)

\* What the claim's `error: <message>` is for a thrown value.
MessageOf(err) == IF err.isError THEN err.message ELSE "settlement_failed"

ReceiptAnswered ==
    ReturnedAfterWrite /\ LastCall.method = "waitForTransactionReceipt" /\ ~LastAnswer.threw

\* C22 as stated, reading txHash as the hash writeContract returned in both
\* results: a reverted receipt gives { success: false, error:
\* "transaction_reverted", txHash }, any other receipt { success: true, txHash,
\* settledAmount: amount }, and a thrown exception { success: false, error }.
C22_ChainWriteOutcome_WrittenHash ==
    ReturnedAfterWrite =>
        /\ settlement # None
        /\ LastAnswer.threw =>
              Val(settlement) = SettleResult(FALSE, None, None, Some(MessageOf(LastAnswer.value)))
        /\ ReceiptAnswered =>
              Val(settlement) =
                  IF LastAnswer.value.status = "reverted"
                  THEN SettleResult(FALSE, Some(WrittenHash), None, Some("transaction_reverted"))
                  ELSE SettleResult(TRUE, Some(WrittenHash), Some(ExpectedAmount), None)

\* C22 (amended): after writeContract returned a hash, a reverted receipt gives
\* { success: false, error: "transaction_reverted", txHash: the hash writeContract
\* returned }, any other receipt { success: true, txHash: the receipt's
\* transactionHash, settledAmount: amount }; a value thrown by writeContract or
\* waitForTransactionReceipt is never propagated: settleUpto returns { success:
\* false, error } with the message of a thrown Error and "settlement_failed" for
\* any other thrown value.
C22_ChainWriteOutcome ==
    ReturnedAfterWrite =>
        /\ settlement # None
        /\ LastAnswer.threw =>
              Val(settlement) = SettleResult(FALSE, None, None, Some(MessageOf(LastAnswer.value)))
        /\ ReceiptAnswered =>
              Val(settlement) =
                  IF LastAnswer.value.status = "reverted"
                  THEN SettleResult(FALSE, Some(WrittenHash), None, Some("transaction_reverted"))
                  ELSE SettleResult(TRUE, Some(LastAnswer.value.transactionHash),
                                    Some(ExpectedAmount), None)

C22_Witness ==
    /\ ReceiptAnswered
    /\ LastAnswer.value.status = "success"
    /\ LastAnswer.value.transactionHash # WrittenHash
    /\ Val(settlement).success

C22_WitnessReverted ==
    /\ ReceiptAnswered
    /\ LastAnswer.value.status = "reverted"
    /\ Val(settlement).txHash = Some(WrittenHash)

C22_WitnessThrown ==
    /\ ReturnedAfterWrite
    /\ LastCall.method = "writeContract"
    /\ LastAnswer.threw
    /\ LastAnswer.value.isError
    /\ Val(settlement).error = Some("execution reverted")

\* The amount argument of the proxy's settle call, when the call was made.
SettleCallAmount ==
    LET i == CHOOSE k \in 1..Len(calls) : calls[k].method = "writeContract"
    IN  calls[i].args[2]

\* C23: when payload.settlementAmount is absent, the amount passed to the
\* proxy's settle call and the returned settledAmount both equal
\* permitted.amount; when it is present, both equal settlementAmount.
C23_AmountFallsBackToCeiling ==
    SettleReturned =>
        /\ HasCall("writeContract") => SettleCallAmount = BigInt(ExpectedAmount)
        /\ (HasCall("writeContract") /\ Val(settlement).success) =>
              Val(settlement).settledAmount = Some(ExpectedAmount)
        /\ Val(settlement).success =>
              BigInt(Val(Val(settlement).settledAmount)) = BigInt(ExpectedAmount)

C23_Witness ==
    /\ SettleReturned
    /\ payload.settlementAmount = None
    /\ Val(settlement).success
    /\ Val(settlement).settledAmount = Some(NumToString(MaxAmount))
    /\ SettleCallAmount = MaxAmount

C23_WitnessMetered ==
    /\ SettleReturned
    /\ payload.settlementAmount # None
    /\ Val(settlement).success
    /\ HasCall("writeContract")
    /\ SettleCallAmount < BigInt(Auth.permitted.amount)
    /\ SettleCallAmount > 0

\* ------------------------------------------------------------------------
\* Properties of the requirements a server derives from a route
\* ------------------------------------------------------------------------

\* The token the package registers for the two supported networks.
RegisteredToken(network) ==
    IF network = BASE_MAINNET THEN Some(USDC_BASE_MAINNET)
    ELSE IF network = BASE_SEPOLIA THEN Some(USDC_BASE_SEPOLIA)
    ELSE None

\* C24: the requirements the middleware advertises and forwards for a route
\* equal those UptoEvmServerScheme.buildRequirements produces for the same route
\* config: an omitted asset becomes the default token of the route's network,
\* and a route on an unknown network with no asset fails instead of being
\* advertised.
C24_MiddlewareUsesServerScheme ==
    (Gated /\ mwPc # "idle") =>
        LET built == BuildRequirements(Val(RouteConfig(request)))
        IN  IF built.threw
            THEN mwRequirements = None /\ reply = None /\ fetches = <<>>
            ELSE mwRequirements = Some(built.value)

\* The server has run buildRequirements for the drawn route config.
RequirementsAsked == client # None /\ client.pc # "buildRequirements"

\* C25: buildRequirements returns scheme "upto", the configured network and
\* payTo, asset = the configured asset or, when none is configured, the USDC
\* address registered for the network, and maxTimeoutSeconds = the configured
\* value or 300; it throws "No default token" when the network is unknown and
\* no asset is configured.
C25_BuildRequirements ==
    RequirementsAsked =>
        LET config == client.config
            built  == client.requirements
        IN  /\ (config.asset = None /\ RegisteredToken(config.network) = None) =>
                  /\ built = None
                  /\ Val(client.thrown).message = "No default token for network"
            /\ built # None =>
                  /\ Val(built).scheme = "upto"
                  /\ Val(built).network = config.network
                  /\ Val(built).payTo = config.payTo
                  /\ Val(built).asset =
                        IF config.asset # None THEN Val(config.asset)
                        ELSE Val(RegisteredToken(config.network))
                  /\ Val(built).maxTimeoutSeconds =
                        IF config.maxTimeoutSeconds # None
                        THEN Val(config.maxTimeoutSeconds) ELSE 300

C25_Witness ==
    /\ RequirementsAsked
    /\ client.config.asset = None
    /\ client.config.network = BASE_MAINNET
    /\ client.config.maxTimeoutSeconds = None
    /\ client.requirements # None
    /\ Val(client.requirements).asset = USDC_BASE_MAINNET

C25_WitnessThrows ==
    /\ RequirementsAsked
    /\ client.config.asset = None
    /\ client.config.network = <<"solana", ":", "1">>
    /\ client.thrown # None

\* The builder ran to its end, with requirements the server had built.
BuilderDone == client # None /\ client.pc = "done" /\ client.requirements # None

\* The network id does not have two parts around one ":" with "eip155" first.
NotEip155Pair(network) ==
    \/ Len(network) < 2
    \/ network[1] # "eip155"
    \/ network[2] # ":"
    \/ \E i \in 3..Len(network) : network[i] = ":"

\* The network id is not eip155:<chainId> with a decimal chain id.
NotEip155ChainId(network) ==
    \/ NotEip155Pair(network)
    \/ Len(network) = 2
    \/ \E i \in 3..Len(network) : ~IsDigit(network[i])

UnsupportedNetworkThrown ==
    /\ client.thrown # None
    /\ Val(client.thrown).message = "Unsupported network format"
    /\ client.calls = <<>>
    /\ client.returned = None

\* C26 as stated, with <chainId> a number: for every network string that is not
\* eip155:<chainId> the builder fails with the unsupported-network-format error
\* and never calls signTypedData.
C26_UnsupportedNetworkRejected_AnyChainId ==
    (BuilderDone /\ NotEip155ChainId(Val(client.requirements).network)) =>
        UnsupportedNetworkThrown

\* C26 (amended): createUptoPermit2Payload fails with the unsupported-network-
\* format error exactly when splitting the network on ":" does not give two
\* parts of which the first is "eip155"; then signTypedData is never called and
\* no payload is returned. Any other network, "eip155:abc" and "eip155:"
\* included, reaches the signer; a failure of the signer is propagated to the
\* caller and no payload is returned.
C26_UnsupportedNetworkRejected ==
    BuilderDone =>
        IF NotEip155Pair(Val(client.requirements).network)
        THEN UnsupportedNetworkThrown
        ELSE /\ Len(client.calls) = 1
             /\ client.calls[1].method = "signTypedData"
             /\ (client.thrown # None) # (client.returned # None)
             /\ client.thrown # None => Val(client.thrown) \in Thrown

C26_Witness ==
    /\ BuilderDone
    /\ Val(client.requirements).network = <<"eip155", ":", "1", ":", "2">>
    /\ UnsupportedNetworkThrown

C26_WitnessSignerFails ==
    /\ BuilderDone
    /\ client.calls # <<>>
    /\ client.thrown # None
    /\ client.returned = None

C26_WitnessNotANumber ==
    /\ BuilderDone
    /\ Val(client.requirements).network = <<"eip155", ":", "a", "b", "c">>
    /\ client.calls[1].domain.chainId = NaN
    /\ client.returned # None

\* ------------------------------------------------------------------------
\* Audit store: getStats
\* ------------------------------------------------------------------------

\* CAST(text AS INTEGER) of SQLite: the longest integer prefix, 0 when there is
\* none; NULL stays NULL, which SUM skips.
CastAsInteger(text) ==
    IF text = None THEN 0
    ELSE IF ParseInt(Val(text)) = NaN THEN 0
    ELSE Val(ParseInt(Val(text)))

\* COALESCE(SUM(CAST(column AS INTEGER)), 0) over the values of a column.
RECURSIVE SumOf(_)
SumOf(texts) ==
    IF texts = <<>> THEN 0
    ELSE CastAsInteger(Head(texts)) + SumOf(Tail(texts))

\* Math.round(n / d) for d > 0: the nearest integer, halves upwards.
MathRound(n, d) == (2 * n + d) \div (2 * d)

\* A WHERE clause that lets every row through.
IsSettled_AnyStatus(row) == TRUE

\* WHERE status = 'settled'
IsSettled(row) == row.status = "settled"

\* getStats: the body of GET /stats.
GetStats(rows) ==
    LET total           == Len(rows)
        settledRows     == SelectSeq(rows, IsSettled)
        settled         == Len(settledRows)
        totalAuthorized == SumOf([i \in 1..Len(rows) |-> Some(rows[i].authorized_amount)])
        totalSettled    == SumOf([i \in 1..Len(settledRows) |->
                                     settledRows[i].settled_amount])
    IN  [totalPayments   |-> total,
         settledPayments |-> settled,
         totalAuthorized |-> NumToString(totalAuthorized),
         totalSettled    |-> NumToString(totalSettled),
         savingsPercent  |-> IF totalAuthorized > 0
                             THEN MathRound((totalAuthorized - totalSettled) * 100,
                                            totalAuthorized)
                             ELSE 0]

\* What the endpoints hand to the store: authorized and settled amounts, and
\* the error of a failed settlement, which may start with digits.
StoreErrors == {<<"transaction_reverted">>, <<"4", "2", "9", " Too Many Requests">>}

StoreRecords ==
    {[payer |-> PAYER, recipient |-> PAY_TO, token |-> USDC_BASE_SEPOLIA,
      authorized_amount |-> amount, nonce |-> nonce, status |-> "verified",
      network |-> BASE_SEPOLIA] :
        amount \in AmountStrings, nonce \in FacNonces}

\* POST /verify records a verification.
StoreVerification ==
    /\ stats = None
    /\ \E record \in StoreRecords : db' = RecordVerification(db, record)
    /\ UNCHANGED <<inflight, chain, serverClock, client, stats>>
    /\ UNCHANGED <<libVars, mwVars>>

\* POST /settle records a settlement.
StoreSettlement ==
    /\ stats = None
    /\ \E nonce \in FacNonces, amount \in AmountStrings :
          db' = RecordSettlement(db, nonce, amount, TxHashOf(1))
    /\ UNCHANGED <<inflight, chain, serverClock, client, stats>>
    /\ UNCHANGED <<libVars, mwVars>>

\* POST /settle records a failure.
StoreFailure ==
    /\ stats = None
    /\ \E nonce \in FacNonces, error \in StoreErrors :
          db' = RecordFailure(db, nonce, error)
    /\ UNCHANGED <<inflight, chain, serverClock, client, stats>>
    /\ UNCHANGED <<libVars, mwVars>>

\* GET /stats answers with getStats(db).
StatsRequested ==
    /\ stats = None
    /\ stats' = Some(GetStats(db))
    /\ UNCHANGED <<client, facVars>>
    /\ UNCHANGED <<libVars, mwVars>>

StatsInit ==
    /\ LibIdle
    /\ MwIdle
    /\ FacIdle
    /\ OtherIdle

StatsNext ==
    \/ StoreVerification
    \/ StoreSettlement
    \/ StoreFailure
    \/ StatsRequested

SpecStats == StatsInit /\ [][StatsNext]_vars

\* ------------------------------------------------------------------------
\* Properties of getStats
\* ------------------------------------------------------------------------

SettledRowIds == {i \in 1..Len(db) : db[i].status = "settled"}

RECURSIVE Total(_)
Total(amounts) ==
    IF DOMAIN amounts = {} THEN 0
    ELSE LET i == CHOOSE k \in DOMAIN amounts : TRUE
         IN  amounts[i] + Total([k \in DOMAIN amounts \ {i} |-> amounts[k]])

AuthorizedTotal == Total([i \in 1..Len(db) |-> BigInt(db[i].authorized_amount)])

SettledTotal == Total([i \in SettledRowIds |-> BigInt(Val(db[i].settled_amount))])

\* p is 100 * (1 - settled / authorized) rounded to the nearest integer.
IsRounded(p, settled, authorized) ==
    /\ 2 * authorized * p - authorized <= 200 * (authorized - settled)
    /\ 200 * (authorized - settled) < 2 * authorized * p + authorized

\* C27: getStats returns totalPayments = the number of audit rows,
\* settledPayments = the number of rows with status settled, totalAuthorized =
\* the sum of authorized_amount over all rows, totalSettled = the sum of
\* settled_amount over the rows with status settled, and savingsPercent =
\* round(100 * (1 - totalSettled / totalAuthorized)), 0 when totalAuthorized is
\* 0; rows with status failed contribute nothing to totalSettled.
C27_StatsTotals ==
    stats # None =>
        /\ Val(stats).totalPayments = Len(db)
        /\ Val(stats).settledPayments = Cardinality(SettledRowIds)
        /\ Val(stats).totalAuthorized = NumToString(AuthorizedTotal)
        /\ Val(stats).totalSettled = NumToString(SettledTotal)
        /\ IF AuthorizedTotal = 0 THEN Val(stats).savingsPercent = 0
           ELSE IsRounded(Val(stats).savingsPercent, SettledTotal, AuthorizedTotal)

C27_Witness ==
    /\ stats # None
    /\ Len(db) = 2
    /\ \E i \in 1..2 :
          /\ db[i].status = "failed"
          /\ db[i].settled_amount = Some(<<"4", "2", "9", " Too Many Requests">>)
    /\ \E i \in 1..2 : db[i].status = "settled"
    /\ Val(stats).savingsPercent = 67

C27_WitnessEmpty ==
    /\ stats # None
    /\ AuthorizedTotal = 0
    /\ Len(db) > 0
    /\ Val(stats).savingsPercent = 0

\* ------------------------------------------------------------------------
\* Properties of verifyUpto's use of the signer
\* ------------------------------------------------------------------------

\* The position of the signer call with this function name, 0 when not made.
CallIndex(functionName) ==
    IF \E i \in 1..Len(calls) : calls[i].functionName = functionName
    THEN CHOOSE i \in 1..Len(calls) : calls[i].functionName = functionName
    ELSE 0

LocalChecksHold == Check1 /\ Check2 /\ Check3 /\ Check4 /\ Check5

\* C28: verifyUpto touches the signer in check order only: when one of the
\* local checks 1-5 fails it returns without calling any signer capability;
\* readContract(allowance) is called only after verifyTypedData returned true;
\* readContract(balanceOf) is called only after the allowance check passed.
C28_SignerTouchedInCheckOrder ==
    now # None =>
        /\ ~LocalChecksHold => (calls = <<>> /\ VerifyReturned)
        /\ CallIndex("allowance") # 0 =>
              /\ CallIndex("allowance") = 2
              /\ calls[1].method = "verifyTypedData"
              /\ Len(answers) >= 1
              /\ ~answers[1].threw
              /\ answers[1].value = TRUE
        /\ CallIndex("balanceOf") # 0 =>
              /\ CallIndex("balanceOf") = 3
              /\ CallIndex("allowance") = 2
              /\ Len(answers) >= 2
              /\ ~answers[2].threw
              /\ answers[2].value >= BigInt(Auth.permitted.amount)

C28_Witness ==
    /\ op = "verifyUpto"
    /\ CallIndex("balanceOf") = 3
    /\ pc = "await_balanceOf"

C28_WitnessLocal ==
    /\ op = "verifyUpto"
    /\ pc = "done"
    /\ Check1 /\ Check2 /\ Check3 /\ Check4 /\ ~Check5
    /\ calls = <<>>

\* C29: verifyUpto is read-only: it never calls writeContract or
\* waitForTransactionReceipt and leaves the payload and the requirements it was
\* given unchanged.
C29_VerifyIsReadOnly ==
    /\ [](op = "verifyUpto" =>
            ~HasCall("writeContract") /\ ~HasCall("waitForTransactionReceipt"))
    /\ [][op = "verifyUpto" =>
            /\ payload' = payload
            /\ requirements' = requirements
            /\ \A i \in 1..Len(calls') :
                  calls'[i].method \in {"verifyTypedData", "readContract"}]_vars

C29_Witness ==
    /\ op = "verifyUpto"
    /\ pc = "done"
    /\ Val(verification).isValid
    /\ Len(calls) = 3

\* ------------------------------------------------------------------------
\* Properties of POST /verify
\* ------------------------------------------------------------------------

\* Request i is answered in this step.
AnsweredNow(i, endpoint) ==
    /\ i <= Len(inflight')
    /\ inflight'[i].endpoint = endpoint
    /\ inflight'[i].pc = "done"
    /\ (i > Len(inflight) \/ inflight[i].pc # "done")

\* The audit row a valid verification of payload p for requirements r inserts.
VerifiedRow(p, r, id) ==
    [id                |-> id,
     payer             |-> p.permit2Authorization.from,
     recipient         |-> p.permit2Authorization.witness.to,
     token             |-> p.permit2Authorization.permitted.token,
     authorized_amount |-> p.permit2Authorization.permitted.amount,
     settled_amount    |-> None,
     nonce             |-> p.permit2Authorization.nonce,
     tx_hash           |-> None,
     status            |-> "verified",
     network           |-> r.network]

\* C30: POST /verify returns the verifier result verbatim and inserts an audit
\* row (status verified) only when the result has isValid = true; a body
\* missing payload or requirements is answered 400 with no audit write, and an
\* invalid result leaves the audit store unchanged.
C30_VerifyEndpoint ==
    [][\A i \in 1..MaxRequests :
          AnsweredNow(i, "/verify") =>
              LET body     == inflight'[i].body
                  response == Val(inflight'[i].response)
              IN  IF body = None
                  THEN /\ response.status = 400
                       /\ response.body = Invalid("missing_payload_or_requirements")
                       /\ db' = db
                  ELSE LET p      == Val(body).payload
                           r      == Val(body).requirements
                           result == VerifyUptoResult(p, r, serverClock, chain)
                       IN  /\ response = JsonResponse(result, 200)
                           /\ ~result.isValid => db' = db
                           /\ db' # db =>
                                 /\ result.isValid
                                 /\ db' = Append(db, VerifiedRow(p, r, Len(db) + 1))]_vars

\* A valid verification whose nonce had no row: the row is there, verified.
C30_Witness ==
    \E i \in 1..Len(inflight) :
        /\ Done(i, "/verify")
        /\ Val(inflight[i].response).body.isValid
        /\ RowsOf(Val(inflight[i].seen).rows, NonceOf(i)) = {}
        /\ \E k \in RowsOf(db, NonceOf(i)) : db[k].status = "verified"

\* An invalid verification and a body without payload, the store still empty.
C30_WitnessRejected ==
    /\ Len(inflight) = 2
    /\ inflight[1].endpoint = "/verify"
    /\ inflight[1].body = None
    /\ Val(inflight[1].response).status = 400
    /\ Done(2, "/verify")
    /\ ~Val(inflight[2].response).body.isValid
    /\ db = <<>>

\* ------------------------------------------------------------------------
\* Properties of what the middleware forwards and of ungated requests
\* ------------------------------------------------------------------------

\* C31: the payload the middleware sends to POST /settle is the payload it sent
\* to POST /verify with only settlementAmount added, set to exactly the value
\* the meter returned, also when that exceeds permitted.amount; the
\* requirements sent in both calls are identical.
C31_SettlePayloadIsVerifiedPayload ==
    Sent("/settle") =>
        /\ Len(fetches) = 2
        /\ fetches[1].url = "/verify"
        /\ fetches[2].url = "/settle"
        /\ fetches[2].body.requirements = fetches[1].body.requirements
        /\ fetches[2].body.payload.signature = fetches[1].body.payload.signature
        /\ fetches[2].body.payload.permit2Authorization =
              fetches[1].body.payload.permit2Authorization
        /\ fetches[2].body.payload.settlementAmount = consumedAmount
        /\ consumedAmount # None

C31_Witness ==
    /\ Sent("/settle")
    /\ BigInt(Val(consumedAmount)) >
          BigInt(fetches[1].body.payload.permit2Authorization.permitted.amount)
    /\ fetches[2].body.payload.settlementAmount = consumedAmount

\* The request's "METHOD path" is not a key of the route table.
Ungated == request # None /\ <<request.method, request.path>> \notin DOMAIN Routes

\* C32: a request whose "METHOD path" is not a key of the route table is passed
\* to the downstream handler unchanged: no payment header is required, no call
\* to the facilitator is made, no meter runs and no settlement header is added.
C32_UngatedPassesThrough ==
    (Ungated /\ mwPc # "idle") =>
        /\ mwPc \in {"passthrough", "done"}
        /\ Occurred("handler:start")
        /\ reply = None
        /\ fetches = <<>>
        /\ mwRequirements = None
        /\ mwPayload = None
        /\ consumedAmount = None
        /\ mwSettlement = None
        /\ ~Occurred("meter:start")
        /\ mwPc = "done" =>
              /\ res # None
              /\ Val(res) \in HandlerResponses
              /\ DOMAIN Val(res).headers = {}

C32_Witness ==
    /\ Ungated
    /\ mwPc = "done"
    /\ request.xPayment = None
    /\ request.paymentSignature = None
    /\ Val(res).status = 200

C32_WitnessWithHeader ==
    /\ Ungated
    /\ mwPc = "done"
    /\ request.xPayment # None
    /\ res # None

\* ------------------------------------------------------------------------
\* Payloads and requirements that do not belong together
\* ------------------------------------------------------------------------

\* A token contract that is not the one the server asks for.
OTHER_TOKEN == <<"d", "E", "a", "D", "0", "0">>

\* Authorizations that pass every address and time check of the route, over
\* the advertised token or over another one.
MismatchPayloadInputs ==
    {[signature |-> "0xvalidsignature",
      permit2Authorization |->
          [from      |-> PAYER,
           permitted |-> [token |-> token, amount |-> amount],
           spender   |-> X402_UPTO_PERMIT2_PROXY_ADDRESS,
           nonce     |-> <<"1", "2", "3", "4", "5">>,
           deadline  |-> NumToString(MaxTime + 1),
           witness   |-> [to |-> PAY_TO, validAfter |-> NumToString(0), extra |-> "0x"]],
      settlementAmount |-> settle] :
        token \in {USDC_BASE_SEPOLIA, ToLowerCase(USDC_BASE_SEPOLIA), OTHER_TOKEN},
        amount \in AmountStrings,
        settle \in {None, Some(NumToString(0)), Some(NumToString(1))}}

\* Requirements as a caller of the library may hand them in: of the upto scheme
\* or of another one.
MismatchRequirementInputs ==
    {[scheme |-> scheme, network |-> BASE_SEPOLIA, asset |-> USDC_BASE_SEPOLIA,
      maxAmount |-> maxAmount, payTo |-> PAY_TO, maxTimeoutSeconds |-> 300] :
        scheme \in {"upto", "exact"}, maxAmount \in AmountStrings}

MismatchInit ==
    /\ MwIdle
    /\ FacIdle
    /\ OtherIdle
    /\ payload \in MismatchPayloadInputs
    /\ requirements \in MismatchRequirementInputs
    /\ op \in {"verifyUpto", "settleUpto"}
    /\ op = "verifyUpto" => payload.settlementAmount = None
    /\ clock = 0
    /\ pc = "call"
    /\ now = None
    /\ calls = <<>>
    /\ answers = <<>>
    /\ verification = None
    /\ settlement = None
    /\ txHash = None

SpecMismatch == MismatchInit /\ [][Next]_vars

\* C33: verifyUpto checks, as the first of its checks, that the scheme is
\* "upto": a verification against requirements whose scheme is not "upto" does
\* not return isValid = true.
C33_SchemeChecked ==
    (VerifyReturned /\ requirements.scheme # "upto") => ~Val(verification).isValid

\* C34: verifyUpto returns isValid = true only if the token of the
\* authorization is the asset the server advertised, compared
\* case-insensitively.
C34_TokenIsAdvertisedAsset ==
    (VerifyReturned /\ Val(verification).isValid) =>
        SameAddress(Auth.permitted.token, requirements.asset)

\* ------------------------------------------------------------------------
\* The middleware in front of the facilitator: one payload sent again
\* ------------------------------------------------------------------------

\* The gated requests the middleware has sent to POST /verify so far.
Served == Cardinality({i \in 1..Len(events) : events[i] = "POST /verify"})

\* What settleUpto resolves to at time t against the chain c, with the chain it
\* leaves behind; `hash` is the hash of the transaction it sends.
SettleUptoOutcomes(p, r, t, c, hash) ==
    LET v == VerifyUptoResult(p, r, t, c)
    IN  IF ExceedsAuthorization(p)
        THEN {[result |-> SettleResult(FALSE, None, None,
                                       Some("settlement_exceeds_authorization")),
               chain  |-> c]}
        ELSE IF IsZeroSettlement(p)
        THEN {[result |-> SettleResult(TRUE, None, Some(<<"0">>), None), chain |-> c]}
        ELSE IF ReverificationFailed(v)
        THEN {[result |-> SettleResult(FALSE, None, None, v.invalidReason), chain |-> c]}
        ELSE IF ChainRejects(c, p)
        THEN {[result |-> result, chain |-> c] : result \in RejectedOutcomes(hash)}
        ELSE {[result |-> result, chain |-> ChainAfterSettle(c, p)] :
                 result \in SettledOutcomes(p, hash)}

\* The facilitator answers the middleware's POST /verify: verifyUpto against the
\* chain, the audit write of a valid result, and the middleware's reading of the
\* body.
FacilitatorVerifies ==
    /\ mwPc = "await_verify"
    /\ LET p    == Val(mwPayload)
           r    == Val(mwRequirements)
           v    == VerifyUptoResult(p, r, serverClock, chain)
           body == VerifyResponseBody(v, db, p)
       IN  /\ db' = IF v.isValid THEN RecordVerification(db, VerificationRecord(p, r))
                    ELSE db
           /\ mwVerification' = Some(body)
           /\ IF VerificationRejected(body)
              THEN /\ reply' = Some(JsonResponse(VerificationFailedBody(body, r),
                                                 VerificationFailureStatus(body)))
                   /\ events' = Append(events, "verify:returned")
                   /\ mwPc' = "done"
              ELSE /\ events' = events \o <<"verify:returned", "handler:start">>
                   /\ mwPc' = "in_handler"
                   /\ reply' = reply
    /\ UNCHANGED <<request, mwRequirements, mwPayload, consumedAmount, mwSettlement,
                   fetches, res>>
    /\ UNCHANGED <<inflight, chain, serverClock>>
    /\ UNCHANGED <<libVars, otherVars>>

\* The facilitator answers the middleware's POST /settle: settleUpto against the
\* chain, the audit write, and the middleware's reading of the body.
FacilitatorSettles ==
    /\ mwPc = "await_settle"
    /\ \E outcome \in SettleUptoOutcomes(Val(mwPayload), Val(mwRequirements), serverClock,
                                         chain, TxHashOf(Served)) :
          /\ chain' = outcome.chain
          /\ db' = AuditSettle(db, Val(mwPayload), outcome.result)
          /\ mwSettlement' = Some(outcome.result)
          /\ res' = Some(ResponseAfterSettlement(Val(res), outcome.result, Val(mwPayload),
                                                  Val(consumedAmount)))
    /\ events' = Append(events, "settle:returned")
    /\ mwPc' = "done"
    /\ UNCHANGED <<request, mwRequirements, mwPayload, mwVerification, consumedAmount,
                   fetches, reply>>
    /\ UNCHANGED <<inflight, serverClock>>
    /\ UNCHANGED <<libVars, otherVars>>

\* The client sends the same request, with the same payment header, once more.
ReplayArrives ==
    /\ mwPc \in {"done", "threw"}
    /\ Served < MaxRequests
    /\ mwPc' = "idle"
    /\ mwRequirements' = None
    /\ mwPayload' = None
    /\ mwVerification' = None
    /\ consumedAmount' = None
    /\ mwSettlement' = None
    /\ fetches' = <<>>
    /\ res' = None
    /\ reply' = None
    /\ UNCHANGED <<request, events>>
    /\ UNCHANGED <<libVars, facVars, otherVars>>

\* A gated request with or without a payment header; the payer has funds and a
\* Permit2 allowance for several settlements, and nothing was settled yet.
ReplayInit ==
    /\ LibIdle
    /\ OtherIdle
    /\ request \in {q \in RequestInputs :
                       /\ q.method = "POST"
                       /\ q.path = "/api/generate"
                       /\ q.paymentSignature = None
                       /\ q.xPayment \in {None} \cup
                              {Some(BtoaJson(ClientPayload(amount))) :
                                  amount \in {<<"1", "0", "0", "0", "0", "0", "0">>,
                                              <<"3">>}}}
    /\ mwPc = "idle"
    /\ mwRequirements = None
    /\ mwPayload = None
    /\ mwVerification = None
    /\ consumedAmount = None
    /\ mwSettlement = None
    /\ fetches = <<>>
    /\ events = <<>>
    /\ res = None
    /\ reply = None
    /\ db = <<>>
    /\ inflight = <<>>
    /\ chain \in {[balance |-> balance, allowance |-> 5000000, used |-> {}] :
                     balance \in {0, 5000000}}
    /\ serverClock \in {0, MaxTime}

ReplayNext ==
    \/ MwReceive
    \/ FacilitatorVerifies
    \/ HandlerReturns
    \/ MeterThrows
    \/ MeterReturns
    \/ FacilitatorSettles
    \/ ReplayArrives

SpecReplay == ReplayInit /\ [][ReplayNext]_vars

\* C35: once the nonce of a payload was used by a successful settlement on the
\* chain, no gated request carrying that payload reaches the route handler: the
\* middleware is never inside the handler for a payload whose nonce is used, so
\* one authorization buys at most one response per settlement.
C35_SettledPayloadIsRefused ==
    mwPc = "in_handler" =>
        Val(mwPayload).permit2Authorization.nonce \notin chain.used

\* ------------------------------------------------------------------------
\* Two authorizations that carry the same nonce
\* ------------------------------------------------------------------------

\* Requirements of a route whose ceiling is the smallest unit.
SharedRequirements == [FacRequirements EXCEPT !.maxAmount = NumToString(1)]

\* The bodies posted for authorizations that carry one nonce value: the payer
\* signed one for the smallest unit and one for MaxAmount, and a second payer,
\* whose Permit2 nonces are his own, has his authorizations verified.
SharedBodies(endpoint) ==
    {Some([payload |-> [FacPayload(<<"1">>, settle) EXCEPT
                           !.permit2Authorization.from = from,
                           !.permit2Authorization.permitted.amount = amount],
           requirements |-> SharedRequirements]) :
        from \in IF endpoint = "/verify" THEN {PAYER, OTHER_ADDRESS} ELSE {PAYER},
        amount \in {NumToString(1), NumToString(MaxAmount)},
        settle \in IF endpoint = "/verify" THEN {None} ELSE FacSettlementAmounts}

SharedReceive ==
    \E endpoint \in {"/verify", "/settle"} :
       \E body \in SharedBodies(endpoint) : Receives(endpoint, body)

\* The store is empty or holds the row of an earlier verification of the
\* payer's smaller authorization, and nothing was settled; the payer has funds
\* and a Permit2 allowance, or has not.
SharedInit ==
    /\ LibIdle
    /\ MwIdle
    /\ OtherIdle
    /\ db \in {<<>>,
               RecordVerification(<<>>,
                   VerificationRecord(
                       [FacPayload(<<"1">>, None) EXCEPT
                           !.permit2Authorization.permitted.amount = NumToString(1)],
                       SharedRequirements))}
    /\ inflight = <<>>
    /\ chain \in {[balance |-> balance, allowance |-> 2 * MaxAmount, used |-> {}] :
                     balance \in {0, 2 * MaxAmount}}
    /\ serverClock \in {0, MaxTime}

SharedNext ==
    \/ SharedReceive
    \/ VerifyCompletes
    \/ SettleBegins
    \/ TransactionCompletes
    \/ SettleRecords

SpecShared == SharedInit /\ [][SharedNext]_vars

\* C36: every audit row with status settled has a settled_amount that is, as
\* an integer, at most the authorized_amount of that row, whatever /verify and
\* /settle calls were made and whoever made them.
C36_SettledWithinAuthorized ==
    \A i \in 1..Len(db) :
        db[i].status = "settled" =>
            BigInt(Val(db[i].settled_amount)) <= BigInt(db[i].authorized_amount)

\* C37: when POST /settle answers success = true with a txHash, the audit store
\* holds, from that answer on, a row for the payload's nonce with status
\* settled and that tx_hash, whether or not a POST /verify for the nonce came
\* before.
C37_SuccessfulSettleRecorded ==
    [][\A i \in 1..MaxRequests :
          (/\ SettleAnswered(i)
           /\ Val(inflight'[i].response).body.success
           /\ Val(inflight'[i].response).body.txHash # None)
          => \E k \in 1..Len(db') :
                /\ db'[k].nonce = NonceOf(i)
                /\ db'[k].status = "settled"
                /\ db'[k].tx_hash = Val(inflight'[i].response).body.txHash]_vars

\* C38: settleUpto answers success = true only for a payload that passes
\* verifyUpto against the requirements at the time of the call: its local
\* checks hold at that time and a verification that ran returned isValid =
\* true, for every settlementAmount within the ceiling, zero included.
C38_SettleSuccessImpliesVerified ==
    (op = "settleUpto" /\ pc = "done" /\ settlement # None /\ Val(settlement).success) =>
        /\ LocalCheckFailure(payload, requirements, clock) = None
        /\ verification # None => Val(verification).isValid

\* The rows the store held for the nonce of request i when its handler ran.
RowsSeen(i) ==
    LET rows == Val(inflight[i].seen).rows
    IN  {rows[k] : k \in RowsOf(rows, NonceOf(i))}

\* C39: a POST /verify for a nonce that already has an audit row leaves that
\* row as it is in every column, whatever the status of the row and whatever
\* the payer and the amount of the new payload.
C39_VerifyKeepsExistingRow ==
    [][\A i \in 1..MaxRequests :
          (AnsweredNow(i, "/verify") /\ inflight'[i].body # None) =>
              \A k \in 1..Len(db) :
                  db[k].nonce = Val(inflight'[i].body).payload.permit2Authorization.nonce
                  => (k <= Len(db') /\ db'[k] = db[k])]_vars

\* A valid verification of the second payer's authorization, for another amount,
\* met the settled row of the first payer.
C39_Witness ==
    \E i \in 1..Len(inflight) :
        /\ Done(i, "/verify")
        /\ Val(inflight[i].response).body.isValid
        /\ \E row \in RowsSeen(i) :
              /\ row.status = "settled"
              /\ row.payer # Val(inflight[i].body).payload.permit2Authorization.from
              /\ row.authorized_amount #
                     Val(inflight[i].body).payload.permit2Authorization.permitted.amount

\* A valid verification met a failed row.
C39_WitnessFailed ==
    \E i \in 1..Len(inflight) :
        /\ Done(i, "/verify")
        /\ Val(inflight[i].response).body.isValid
        /\ \E row \in RowsSeen(i) : row.status = "failed"

\* C40: an audit row with status failed means that no funds moved: while the
\* row of a nonce has status failed, no settle transaction for that nonce has
\* gone through on the chain.
C40_FailedMeansNothingMoved ==
    \A k \in 1..Len(db) : db[k].status = "failed" => db[k].nonce \notin chain.used

============================================================================
